---------------------------- MODULE Spec2Model ----------------------------
(***************************************************************************)
(* A model of the vinscape VIN decode/generate engine (app/routes.py) and  *)
(* of the data-build scripts that fill its reference tables (src/*.py).    *)
(*                                                                         *)
(* Representation.  Python text is a sequence of one-character strings, so *)
(* that indexing, slicing, upper(), strip() and re.sub() are computed and  *)
(* not assumed.  Python indices are 0-based, sequence indices 1-based:     *)
(* vin[8] of the source is vin[9] here.  A JSON number in a decode result  *)
(* is the one-element tuple of its value.  NULL / None / '' of a text      *)
(* column is the empty text (the code only tests such values for           *)
(* truthiness); NULL of an id column is 0 (ids are positive).              *)
(***************************************************************************)
EXTENDS Integers, Sequences, FiniteSets, TLC

VARIABLES
    countries,          \* table countries          (app/models/country.py)
    wmi_region_codes,   \* table wmi_region_codes   (app/models/wmi.py)
    wmi_regions,        \* table wmi_regions        (app/models/wmi_region.py)
    wmi_factories,      \* table wmi_factories      (app/models/wmi_factory.py)
    factory_logos,      \* table factory_logos      (app/models/factory_logo.py)
    current_year,       \* datetime.now().year as read by the last request
    op,                 \* the last operation that ran
    raw,                \* the text handed to decode_vin by the last request
    generated,          \* the value generate_vin returned to the last request
    result,             \* the value decode_vin returned to the last request
    log,                \* the data-build scripts run so far, in order
    calls,              \* the requests in flight, one per worker of the server
    frames,             \* the local variables of each call in flight
    wmi_map,            \* the code-to-country map the scraper's last saved run built
    wmi_rules           \* the rules in public_data_sources/wmi_region_codes.json

vars == <<countries, wmi_region_codes, wmi_regions, wmi_factories, factory_logos,
          current_year, op, raw, generated, result, log, calls, frames, wmi_map, wmi_rules>>

tables == <<countries, wmi_region_codes, wmi_regions, wmi_factories, factory_logos>>

-----------------------------------------------------------------------------
(* Text helpers: what Python's str operations do on ASCII text.            *)

ASCII_UPPERCASE == <<"A", "B", "C", "D", "E", "F", "G", "H", "I", "J", "K", "L", "M",
                     "N", "O", "P", "Q", "R", "S", "T", "U", "V", "W", "X", "Y", "Z">>

ASCII_LOWERCASE == <<"a", "b", "c", "d", "e", "f", "g", "h", "i", "j", "k", "l", "m",
                     "n", "o", "p", "q", "r", "s", "t", "u", "v", "w", "x", "y", "z">>

WHITESPACE == {" ", "\t", "\n"}

None == <<>>

NoId == 0

Range(s) == {s[i] : i \in DOMAIN s}

IndexOf(s, c) == CHOOSE i \in DOMAIN s : s[i] = c

Contains(s, c) == c \in Range(s)

UpperChar(c) ==
    IF Contains(ASCII_LOWERCASE, c) THEN ASCII_UPPERCASE[IndexOf(ASCII_LOWERCASE, c)] ELSE c

LowerChar(c) ==
    IF Contains(ASCII_UPPERCASE, c) THEN ASCII_LOWERCASE[IndexOf(ASCII_UPPERCASE, c)] ELSE c

\* str.upper()
Upper(s) == [i \in DOMAIN s |-> UpperChar(s[i])]

\* str.lower()
Lower(s) == [i \in DOMAIN s |-> LowerChar(s[i])]

\* str.strip(): drops the leading and the trailing run of whitespace
Strip(s) ==
    LET keep == {i \in DOMAIN s : s[i] \notin WHITESPACE}
    IN  IF keep = {} THEN <<>>
        ELSE LET lo == CHOOSE i \in keep : \A j \in keep : i <= j
                 hi == CHOOSE i \in keep : \A j \in keep : j <= i
             IN  SubSeq(s, lo, hi)

\* Python truthiness of a text value: None and '' are falsy
Truthy(s) == s # None

-----------------------------------------------------------------------------
(* VIN constants, routes.py lines 19-36.                                   *)

\* The character list of the three seeder scripts (letters, then 1-9, then 0)
SEED_VIN_CHARACTERS ==
    <<"A", "B", "C", "D", "E", "F", "G", "H", "J", "K", "L", "M",
      "N", "P", "R", "S", "T", "U", "V", "W", "X", "Y", "Z",
      "1", "2", "3", "4", "5", "6", "7", "8", "9", "0">>

VIN_LENGTH == 17

INVALID_CHARS == <<"I", "O", "Q">>

\* VIN_CHARACTERS with the letter U left out as well
VIN_CHARACTERS_without_U ==
    <<"A", "B", "C", "D", "E", "F", "G", "H", "J", "K", "L", "M", "N",
      "P", "R", "S", "T", "V", "W", "X", "Y", "Z",
      "0", "1", "2", "3", "4", "5", "6", "7", "8", "9">>

VIN_CHARACTERS == <<"A", "B", "C", "D", "E", "F", "G", "H", "J", "K", "L", "M", "N",
                    "P", "R", "S", "T", "U", "V", "W", "X", "Y", "Z",
                    "0", "1", "2", "3", "4", "5", "6", "7", "8", "9">>

DIGITS == <<"0", "1", "2", "3", "4", "5", "6", "7", "8", "9">>

\* line 29 with a weight at the check digit's own position
WEIGHTS_own_position == <<8, 7, 6, 5, 4, 3, 2, 10, 1, 9, 8, 7, 6, 5, 4, 3, 2>>

TRANSLITERATION ==
    ("A" :> 1) @@ ("B" :> 2) @@ ("C" :> 3) @@ ("D" :> 4) @@ ("E" :> 5) @@ ("F" :> 6) @@
    ("G" :> 7) @@ ("H" :> 8) @@
    ("J" :> 1) @@ ("K" :> 2) @@ ("L" :> 3) @@ ("M" :> 4) @@ ("N" :> 5) @@ ("P" :> 7) @@
    ("R" :> 9) @@
    ("S" :> 2) @@ ("T" :> 3) @@ ("U" :> 4) @@ ("V" :> 5) @@ ("W" :> 6) @@ ("X" :> 7) @@
    ("Y" :> 8) @@ ("Z" :> 9) @@
    ("0" :> 0) @@ ("1" :> 1) @@ ("2" :> 2) @@ ("3" :> 3) @@ ("4" :> 4) @@ ("5" :> 5) @@
    ("6" :> 6) @@ ("7" :> 7) @@ ("8" :> 8) @@ ("9" :> 9)

WEIGHTS == <<8, 7, 6, 5, 4, 3, 2, 10, 0, 9, 8, 7, 6, 5, 4, 3, 2>>

\* MODEL_YEARS with one more key: U for a year after the cycle
MODEL_YEARS_with_U ==
    ("A" :> 2010) @@ ("B" :> 2011) @@ ("C" :> 2012) @@ ("D" :> 2013) @@ ("E" :> 2014) @@
    ("F" :> 2015) @@ ("G" :> 2016) @@ ("H" :> 2017) @@ ("J" :> 2018) @@ ("K" :> 2019) @@
    ("L" :> 2020) @@ ("M" :> 2021) @@ ("N" :> 2022) @@ ("P" :> 2023) @@ ("R" :> 2024) @@
    ("S" :> 2025) @@ ("T" :> 2026) @@ ("V" :> 2027) @@ ("W" :> 2028) @@ ("X" :> 2029) @@
    ("Y" :> 2030) @@ ("1" :> 2031) @@ ("2" :> 2032) @@ ("3" :> 2033) @@ ("4" :> 2034) @@
    ("5" :> 2035) @@ ("6" :> 2036) @@ ("7" :> 2037) @@ ("8" :> 2038) @@ ("9" :> 2039) @@
    ("U" :> 2040)

MODEL_YEARS ==
    ("A" :> 2010) @@ ("B" :> 2011) @@ ("C" :> 2012) @@ ("D" :> 2013) @@ ("E" :> 2014) @@
    ("F" :> 2015) @@ ("G" :> 2016) @@ ("H" :> 2017) @@ ("J" :> 2018) @@ ("K" :> 2019) @@
    ("L" :> 2020) @@ ("M" :> 2021) @@ ("N" :> 2022) @@ ("P" :> 2023) @@ ("R" :> 2024) @@
    ("S" :> 2025) @@ ("T" :> 2026) @@ ("V" :> 2027) @@ ("W" :> 2028) @@ ("X" :> 2029) @@
    ("Y" :> 2030) @@ ("1" :> 2031) @@ ("2" :> 2032) @@ ("3" :> 2033) @@ ("4" :> 2034) @@
    ("5" :> 2035) @@ ("6" :> 2036) @@ ("7" :> 2037) @@ ("8" :> 2038) @@ ("9" :> 2039)

\* The text literals of routes.py
UNKNOWN == <<"U", "n", "k", "n", "o", "w", "n">>

NORTH_AMERICA == <<"N", "o", "r", "t", "h", " ", "A", "m", "e", "r", "i", "c", "a">>

OCEANIA == <<"O", "c", "e", "a", "n", "i", "a">>

SOUTH_AMERICA == <<"S", "o", "u", "t", "h", " ", "A", "m", "e", "r", "i", "c", "a">>

ASIA == <<"A", "s", "i", "a">>

AFRICA == <<"A", "f", "r", "i", "c", "a">>

EUROPE == <<"E", "u", "r", "o", "p", "e">>

PLACEHOLDER_SVG == <<"p", "l", "a", "c", "e", "h", "o", "l", "d", "e", "r", ".", "s", "v", "g">>

PNG_SUFFIX == <<".", "p", "n", "g">>

UNKNOWN_MANUFACTURER == <<"U", "n", "k", "n", "o", "w", "n", " ",
                          "M", "a", "n", "u", "f", "a", "c", "t", "u", "r", "e", "r">>

UNKNOWN_COUNTRY == <<"U", "n", "k", "n", "o", "w", "n", " ", "C", "o", "u", "n", "t", "r", "y">>

\* the two emoji literals, each one symbol
FACTORY_EMOJI == <<"U+1F3ED">>

WHITE_FLAG_EMOJI == <<"U+1F3F3">>

\* The four error messages of decode_vin
ERR_LENGTH == "VIN must be exactly 17 characters"

ERR_FORBIDDEN(char) ==
    CASE char = "I" -> "Invalid character \"I\" found"
      [] char = "O" -> "Invalid character \"O\" found"
      [] char = "Q" -> "Invalid character \"Q\" found"

ERR_INVALID == "VIN contains invalid characters"

ERR_CHECK_DIGIT == "Check digit validation failed. This VIN is not valid."

-----------------------------------------------------------------------------
(* VIN utility functions, routes.py lines 40-97.                           *)

RECURSIVE SumTo(_, _)
SumTo(f, n) == IF n = 0 THEN 0 ELSE f[n] + SumTo(f, n - 1)

\* TRANSLITERATION.get(c, 0)
Transliterate(c) == IF c \in DOMAIN TRANSLITERATION THEN TRANSLITERATION[c] ELSE 0

\* compute_check_digit reducing modulo 10 instead of 11
compute_check_digit_mod10(vin) ==
    LET total == SumTo([i \in 1..17 |-> Transliterate(vin[i]) * WEIGHTS[i]], 17)
    IN  DIGITS[(total % 10) + 1]

\* compute_check_digit: the caller guarantees 17 characters
compute_check_digit(vin) ==
    LET total == SumTo([i \in 1..VIN_LENGTH |-> Transliterate(vin[i]) * WEIGHTS[i]],
                       VIN_LENGTH)
        remainder == total % 11
    IN  IF remainder = 10 THEN "X" ELSE DIGITS[remainder + 1]

validate_check_digit(vin) == vin[9] = compute_check_digit(vin)

\* is_north_american testing '1234' instead of '12345'
is_north_american_1to4(vin) == vin[1] \in {"1", "2", "3", "4"}

is_north_american(vin) == vin[1] \in {"1", "2", "3", "4", "5"}

\* resolve_model_year adding 30 for every whole cycle that has passed
resolve_model_year_cycles(char, year_now) ==
    LET base_year == IF char \in DOMAIN MODEL_YEARS THEN MODEL_YEARS[char] ELSE 0
        year == IF base_year < year_now - 30
                THEN base_year + 30 * ((year_now - base_year) \div 30)
                ELSE base_year
    IN  IF base_year = 0 THEN 0
        ELSE IF year <= year_now THEN year ELSE 0

\* resolve_model_year without the rollover of lines 60-61: the base year only
resolve_model_year_no_rollover(char, year_now) ==
    LET base_year == IF char \in DOMAIN MODEL_YEARS THEN MODEL_YEARS[char] ELSE 0
    IN  IF base_year = 0 THEN 0
        ELSE IF base_year <= year_now THEN base_year ELSE 0

\* resolve_model_year with the clock reading as a parameter; None is 0 (falsy)
resolve_model_year(char, year_now) ==
    LET base_year == IF char \in DOMAIN MODEL_YEARS THEN MODEL_YEARS[char] ELSE 0
        year == IF base_year < year_now - 30 THEN base_year + 30 ELSE base_year
    IN  IF base_year = 0 THEN 0
        ELSE IF year <= year_now THEN year ELSE 0

\* map_vin_region_to_name with 6 and 7 filed under South America
map_vin_region_to_name_67(wmi_char) ==
    LET c == UpperChar(wmi_char)
    IN  CASE c \in {"1", "2", "3", "4", "5"} -> NORTH_AMERICA
          [] c \in {"6", "7", "8", "9"} -> SOUTH_AMERICA
          [] c \in {"J", "K", "L", "M", "N"} -> ASIA
          [] c \in {"A", "B"} -> AFRICA
          [] c \in {"S", "T", "U", "V", "W", "X", "Y", "Z"} -> EUROPE
          [] OTHER -> UNKNOWN

\* map_vin_region_to_name with the Africa range running A-C
map_vin_region_to_name_AC(wmi_char) ==
    LET c == UpperChar(wmi_char)
    IN  CASE c \in {"1", "2", "3", "4", "5"} -> NORTH_AMERICA
          [] c \in {"6", "7"} -> OCEANIA
          [] c \in {"8", "9"} -> SOUTH_AMERICA
          [] c \in {"J", "K", "L", "M", "N"} -> ASIA
          [] c \in {"A", "B", "C"} -> AFRICA
          [] c \in {"S", "T", "U", "V", "W", "X", "Y", "Z"} -> EUROPE
          [] OTHER -> UNKNOWN

map_vin_region_to_name(wmi_char) ==
    LET c == UpperChar(wmi_char)
    IN  CASE c \in {"1", "2", "3", "4", "5"} -> NORTH_AMERICA
          [] c \in {"6", "7"} -> OCEANIA
          [] c \in {"8", "9"} -> SOUTH_AMERICA
          [] c \in {"J", "K", "L", "M", "N"} -> ASIA
          [] c \in {"A", "B"} -> AFRICA
          [] c \in {"S", "T", "U", "V", "W", "X", "Y", "Z"} -> EUROPE
          [] OTHER -> UNKNOWN

\* re.sub(r'\s+', '_', s): every maximal run of whitespace becomes one '_'
RECURSIVE SubWhitespace(_)
SubWhitespace(s) ==
    IF s = <<>> THEN <<>>
    ELSE IF Head(s) \in WHITESPACE
         THEN IF Len(s) > 1 /\ s[2] \in WHITESPACE
              THEN SubWhitespace(Tail(s))
              ELSE <<"_">> \o SubWhitespace(Tail(s))
         ELSE <<Head(s)>> \o SubWhitespace(Tail(s))

\* get_region_image_filename without the re.sub of line 96: spaces stay
get_region_image_filename_spaces(region_name) ==
    IF region_name = UNKNOWN THEN PLACEHOLDER_SVG
    ELSE Lower(Strip(region_name)) \o PNG_SUFFIX

get_region_image_filename(region_name) ==
    IF region_name = UNKNOWN THEN PLACEHOLDER_SVG
    ELSE Lower(SubWhitespace(Strip(region_name))) \o PNG_SUFFIX

-----------------------------------------------------------------------------
(* Reads of the reference tables (SQLAlchemy queries of routes.py).        *)

\* The value of a query that found no row (Python's None)
NoRow == [id |-> NoId]

\* str.startswith
StartsWith(s, prefix) ==
    Len(prefix) <= Len(s) /\ SubSeq(s, 1, Len(prefix)) = prefix

\* The values db.session.scalar can return for a query matching `rows`: the
\* first row of the result, whichever row the engine lists first when the
\* query has no ORDER BY, and None when nothing matches.
Scalar(rows) == IF rows = {} THEN {NoRow} ELSE rows

\* row.country, the relationship: the Country with the row's country_id, or None
CountryOf(row) ==
    LET found == {c \in countries : c.id = row.country_id}
    IN  IF found = {} THEN NoRow ELSE CHOOSE c \in found : TRUE

\* select(WmiFactory).filter_by(wmi=wmi)
factory_query(wmi) == {f \in wmi_factories : f.wmi = wmi}

\* select(WmiRegion).filter(WmiRegion.code.startswith(region_code)).limit(1)
wmi_country_query(region_code) ==
    {r \in wmi_regions : StartsWith(r.code, <<region_code>>)}

\* get_factory_logos; the order of the list is the engine's, so it is a set here
get_factory_logos(factory_id) ==
    {l.logo_filename : l \in {x \in factory_logos : x.factory_id = factory_id}}

-----------------------------------------------------------------------------
(* decode_vin, routes.py lines 101-220.                                    *)

\* line 103 without the .upper()
Normalize_strip_only(vin) == Strip(vin)

\* line 103
Normalize(vin) == Strip(Upper(vin))

\* lines 106-113 with the alphabet test ahead of the I/O/Q test
basic_validation_alphabet_first(vin) ==
    IF Len(vin) # 17 THEN ERR_LENGTH
    ELSE IF ~(\A i \in DOMAIN vin : Contains(VIN_CHARACTERS, vin[i]))
         THEN ERR_INVALID
         ELSE ""

\* lines 106-113: the error message of the basic validation, "" when it passes
basic_validation(vin) ==
    IF Len(vin) # VIN_LENGTH THEN ERR_LENGTH
    ELSE IF \E i \in DOMAIN INVALID_CHARS : Contains(vin, INVALID_CHARS[i])
         THEN ERR_FORBIDDEN(INVALID_CHARS[CHOOSE i \in DOMAIN INVALID_CHARS :
                                /\ Contains(vin, INVALID_CHARS[i])
                                /\ \A j \in 1..(i - 1) : ~Contains(vin, INVALID_CHARS[j])])
         ELSE IF ~(\A i \in DOMAIN vin : Contains(VIN_CHARACTERS, vin[i]))
              THEN ERR_INVALID
              ELSE ""

\* lines 163-211 with the no-factory branch leaving manufacturer_logos unset
factory_fields_no_logos_on_miss(factory_entry, region, region_country, region_flag) ==
    IF factory_entry # NoRow
    THEN LET country == CountryOf(factory_entry)
             linked == country # NoRow
             factory_country_name ==
                 IF linked THEN country.common_name
                 ELSE IF Truthy(factory_entry.region) THEN factory_entry.region
                      ELSE UNKNOWN_COUNTRY
             factory_flag == IF linked THEN country.flag_emoji ELSE FACTORY_EMOJI
             factory_region ==
                 IF linked THEN country.region
                 ELSE IF Truthy(factory_entry.region) THEN factory_entry.region
                      ELSE region
         IN  [manufacturer |-> factory_entry.name,
              country |-> factory_country_name,
              country_flag |-> factory_flag,
              country_region |-> factory_region,
              factory_country |-> factory_country_name,
              factory_flag |-> factory_flag,
              factory_region |-> factory_region,
              manufacturer_logos |-> get_factory_logos(factory_entry.id)]
    ELSE [manufacturer |-> UNKNOWN_MANUFACTURER,
          factory_region |-> UNKNOWN,
          factory_country |-> UNKNOWN,
          factory_flag |-> WHITE_FLAG_EMOJI,
          country |-> region_country,
          country_flag |-> region_flag,
          country_region |-> region]

\* lines 163-211: the fields that depend on the Tier-1 factory lookup
factory_fields(factory_entry, region, region_country, region_flag) ==
    IF factory_entry # NoRow
    THEN LET country == CountryOf(factory_entry)
             linked == country # NoRow
             factory_country_name ==
                 IF linked THEN country.common_name
                 ELSE IF Truthy(factory_entry.region) THEN factory_entry.region
                      ELSE UNKNOWN_COUNTRY
             factory_flag == IF linked THEN country.flag_emoji ELSE FACTORY_EMOJI
             factory_region ==
                 IF linked THEN country.region
                 ELSE IF Truthy(factory_entry.region) THEN factory_entry.region
                      ELSE region
         IN  [manufacturer |-> factory_entry.name,
              country |-> factory_country_name,
              country_flag |-> factory_flag,
              country_region |-> factory_region,
              factory_country |-> factory_country_name,
              factory_flag |-> factory_flag,
              factory_region |-> factory_region,
              manufacturer_logos |-> get_factory_logos(factory_entry.id)]
    ELSE [manufacturer |-> UNKNOWN_MANUFACTURER,
          manufacturer_logos |-> {},
          factory_region |-> UNKNOWN,
          factory_country |-> UNKNOWN,
          factory_flag |-> WHITE_FLAG_EMOJI,
          country |-> region_country,
          country_flag |-> region_flag,
          country_region |-> region]

\* lines 121-220 with the region fields taken from the Tier-2 country found
decode_record_region_from_country(vin, year_now, factory_entry, wmi_country_entry) ==
    LET wmi == SubSeq(vin, 1, 3)
        region_code == vin[1]
        general_region == map_vin_region_to_name(region_code)
        region_country ==
            IF wmi_country_entry # NoRow /\ CountryOf(wmi_country_entry) # NoRow
            THEN CountryOf(wmi_country_entry).common_name
            ELSE general_region
        region_flag == get_region_image_filename(region_country)
        year == resolve_model_year(vin[10], year_now)
    IN  [vin |-> vin,
         wmi |-> wmi,
         vds |-> SubSeq(vin, 4, 9),
         vis |-> SubSeq(vin, 10, 17),
         check_digit |-> vin[9],
         check_digit_valid |-> validate_check_digit(vin),
         model_year_char |-> vin[10],
         plant_code |-> vin[11],
         serial_number |-> SubSeq(vin, 12, 17),
         region |-> region_country,
         region_country |-> region_country,
         region_flag |-> region_flag,
         model_year |-> IF year # 0 THEN <<year>> ELSE UNKNOWN]
        @@ factory_fields(factory_entry, general_region, region_country, region_flag)

\* lines 121-220 for a validated vin, given the rows the two lookups returned
decode_record(vin, year_now, factory_entry, wmi_country_entry) ==
    LET wmi == SubSeq(vin, 1, 3)
        region_code == vin[1]
        general_region == map_vin_region_to_name(region_code)
        region_country ==
            IF wmi_country_entry # NoRow /\ CountryOf(wmi_country_entry) # NoRow
            THEN CountryOf(wmi_country_entry).common_name
            ELSE general_region
        region_flag == get_region_image_filename(general_region)
        year == resolve_model_year(vin[10], year_now)
    IN  [vin |-> vin,
         wmi |-> wmi,
         vds |-> SubSeq(vin, 4, 9),
         vis |-> SubSeq(vin, 10, 17),
         check_digit |-> vin[9],
         check_digit_valid |-> validate_check_digit(vin),
         model_year_char |-> vin[10],
         plant_code |-> vin[11],
         serial_number |-> SubSeq(vin, 12, 17),
         region |-> general_region,
         region_country |-> region_country,
         region_flag |-> region_flag,
         model_year |-> IF year # 0 THEN <<year>> ELSE UNKNOWN]
        @@ factory_fields(factory_entry, general_region, region_country, region_flag)

\* decode_vin with a Tier-1 miss reported as an error
decode_vin_miss_is_error(vin_in, year_now) ==
    LET vin == Normalize(vin_in)
    IN  IF basic_validation(vin) # ""
        THEN {[error |-> basic_validation(vin)]}
        ELSE IF is_north_american(vin) /\ ~validate_check_digit(vin)
             THEN {[error |-> ERR_CHECK_DIGIT]}
             ELSE IF factory_query(SubSeq(vin, 1, 3)) = {}
                  THEN {[error |-> "Unknown manufacturer"]}
                  ELSE {decode_record(vin, year_now, f, r) :
                            f \in Scalar(factory_query(SubSeq(vin, 1, 3))),
                            r \in Scalar(wmi_country_query(vin[1]))}

\* decode_vin(vin) at clock reading year_now: the set of values it can return
decode_vin(vin_in, year_now) ==
    LET vin == Normalize(vin_in)
    IN  IF basic_validation(vin) # ""
        THEN {[error |-> basic_validation(vin)]}
        ELSE IF is_north_american(vin) /\ ~validate_check_digit(vin)
             THEN {[error |-> ERR_CHECK_DIGIT]}
             ELSE {decode_record(vin, year_now, f, r) :
                       f \in Scalar(factory_query(SubSeq(vin, 1, 3))),
                       r \in Scalar(wmi_country_query(vin[1]))}

-----------------------------------------------------------------------------
(* generate_vin, routes.py lines 222-243.                                  *)

\* How many positions of one random.choices(...) call vary in the model
MaxVary == 1

\* The values the bounded random source draws from a population
Draws(population) == {population[1], population[Len(population)]}

\* random.choice(population)
random_choice(population) == Draws(population)

\* random.choices(population, k=k), as text
random_choices(population, k) ==
    {[i \in 1..k |-> IF i <= MaxVary THEN f[i] ELSE population[1]] :
         f \in [1..MaxVary -> Draws(population)]}

\* line 232 without the filter: every character of the year table
valid_years_all(year_now) == DOMAIN MODEL_YEARS

\* line 232: the year characters that resolve to a year that is not in the future
valid_years(year_now) ==
    {k \in DOMAIN MODEL_YEARS :
         resolve_model_year(k, year_now) # 0 /\ resolve_model_year(k, year_now) <= year_now}

\* lines 238-243 without line 242: the placeholder '0' stays at position 8
with_check_digit_unspliced(wmi, vds, model_year_char, plant_code, serial) ==
    wmi \o vds \o <<"0">> \o <<model_year_char>> \o <<plant_code>> \o serial

\* lines 238-243: the placeholder VIN with its check digit spliced in
with_check_digit(wmi, vds, model_year_char, plant_code, serial) ==
    LET vin_array == wmi \o vds \o <<"0">> \o <<model_year_char>> \o <<plant_code>> \o serial
    IN  [vin_array EXCEPT ![9] = compute_check_digit(vin_array)]

\* generate_vin that never reads the factory table: the WMI is always random
generate_vin_random_wmi(year_now) ==
    LET years == IF valid_years(year_now) # {} THEN valid_years(year_now) ELSE {"L"}
    IN  {with_check_digit(wmi, vds, y, plant_code, serial) :
             wmi \in random_choices(VIN_CHARACTERS, 3),
             vds \in random_choices(VIN_CHARACTERS, 5),
             y \in years,
             plant_code \in random_choice(VIN_CHARACTERS),
             serial \in random_choices(DIGITS, 6)}

\* generate_vin() at clock reading year_now: the set of values it can return
generate_vin(year_now) ==
    LET wmis == IF wmi_factories # {}
                THEN {f.wmi : f \in wmi_factories}
                ELSE random_choices(VIN_CHARACTERS, 3)
        years == IF valid_years(year_now) # {} THEN valid_years(year_now) ELSE {"L"}
    IN  {with_check_digit(wmi, vds, y, plant_code, serial) :
             wmi \in wmis,
             vds \in random_choices(VIN_CHARACTERS, 5),
             y \in years,
             plant_code \in random_choice(VIN_CHARACTERS),
             serial \in random_choices(DIGITS, 6)}

-----------------------------------------------------------------------------
(* The reference data and the requests the model explores.                 *)

\* How many whitespace characters a request may carry on either side
MaxPad == 1

UNITED_STATES == <<"U", "n", "i", "t", "e", "d", " ", "S", "t", "a", "t", "e", "s">>

JAPAN == <<"J", "a", "p", "a", "n">>

HONDA == <<"H", "o", "n", "d", "a">>

ISUZU == <<"I", "s", "u", "z", "u">>

GLOBE_EMOJI == <<"U+1F310">>

US_FLAG == <<"U+1F1FA U+1F1F8">>

JP_FLAG == <<"U+1F1EF U+1F1F5">>

\* A row of the countries table: the columns the engine and the seeders use
CountryRow(id, a2, a3, common_name, region, flag) ==
    [id |-> id, iso_alpha2 |-> a2, iso_alpha3 |-> a3, common_name |-> common_name,
     region |-> region, flag_emoji |-> flag]

SampleCountries ==
    {CountryRow(1, <<"U", "S">>, <<"U", "S", "A">>, UNITED_STATES, NORTH_AMERICA, US_FLAG),
     CountryRow(2, <<"J", "P">>, <<"J", "P", "N">>, JAPAN, ASIA, JP_FLAG),
     CountryRow(3, <<"X", "X">>, <<"X", "X", "X">>, UNKNOWN, UNKNOWN, WHITE_FLAG_EMOJI),
     CountryRow(4, <<"0", "S">>, <<"0", "A", "S">>, ASIA, ASIA, GLOBE_EMOJI)}

RegionRow(id, code, country_id) == [id |-> id, code |-> code, country_id |-> country_id]

\* wmi_regions.code is unique in every table
SampleRegionTables ==
    {{},
     {RegionRow(1, <<"1", "H">>, 1), RegionRow(2, <<"1", "A">>, 2),
      RegionRow(3, <<"J", "H">>, 2), RegionRow(4, <<"J", "A">>, 3),
      RegionRow(5, <<"A", "H">>, 4)}}

FactoryRow(id, wmi, name, country_id, region) ==
    [id |-> id, wmi |-> wmi, name |-> name, country_id |-> country_id, region |-> region]

\* wmi_factories.wmi is unique in every table
SampleFactoryTables ==
    {{},
     {FactoryRow(1, <<"1", "H", "G">>, HONDA, 1, None),
      FactoryRow(2, <<"J", "H", "G">>, HONDA, NoId, ASIA),
      FactoryRow(3, <<"J", "A", "C">>, ISUZU, NoId, None)}}

SampleLogos ==
    {[factory_id |-> 1, logo_filename |-> <<"h", "o", "n", "d", "a", ".", "p", "n", "g">>]}

\* 2009: no year character resolves; 2025: the spec's example; 2041: rollover
SampleYears == {2009, 2025, 2041}

BaseVin1 == <<"1", "H", "G", "C", "M", "8", "2", "6", "3", "3", "A", "0", "0", "4", "3", "5", "2">>

BaseVin2 == <<"J", "A", "C", "C", "M", "8", "2", "6", "3", "L", "A", "0", "0", "4", "3", "5", "2">>

BaseVins == {BaseVin1, BaseVin2}

CheckChars == Range(DIGITS) \cup {"X"}

\* every character a request may contain in the model
InputChars ==
    Range(ASCII_UPPERCASE) \cup Range(DIGITS) \cup {"a", "h", "i", "j", "x", "z"}
        \cup {" ", "\t", "-", "_"}

\* well-formed VINs: every leading character with every check character
LeadInputs ==
    {[b EXCEPT ![1] = l, ![9] = k] : b \in BaseVins, l \in Range(VIN_CHARACTERS), k \in CheckChars}

\* one character of a base VIN replaced by any input character
ProbeInputs ==
    {[BaseVin2 EXCEPT ![p] = c] : p \in {1, 9, 10, 11, 17}, c \in InputChars}

\* a forbidden and an alien character together, in either order
MixedInputs ==
    {[BaseVin2 EXCEPT ![p] = c, ![q] = d] :
         p \in {2, 16}, q \in {4, 12}, c \in {"I", "O", "Q"}, d \in {"-", "O", "Q", " "}}

\* wrong lengths, with good and with bad characters
LengthInputs ==
    {SubSeq(b, 1, n) : b \in BaseVins \cup {[BaseVin2 EXCEPT ![3] = "I", ![4] = "-"]},
                       n \in {0, 1, 5, 16}}
        \cup {b \o <<c>> : b \in BaseVins, c \in {"0", "I", "-"}}
        \cup {<<"S", "H", "O", "R", "T">>}

WhitespaceRuns == UNION {[1..n -> {" ", "\t"}] : n \in 0..MaxPad}

\* lower case and surrounding whitespace
DecoratedInputs ==
    {l \o v \o r :
         v \in {BaseVin1, Lower(BaseVin1), Lower(BaseVin2),
                [BaseVin1 EXCEPT ![9] = "0"],
                [Lower(BaseVin2) EXCEPT ![4] = "i"],
                [Lower(BaseVin2) EXCEPT ![4] = "-"],
                SubSeq(Lower(BaseVin1), 1, 16),
                [BaseVin2 EXCEPT ![17] = " "]},
         l \in WhitespaceRuns, r \in WhitespaceRuns}

\* the worked examples of the specification's section 8
ExampleInputs ==
    {BaseVin1,
     [BaseVin1 EXCEPT ![9] = "0"],
     [BaseVin1 EXCEPT ![1] = "J", ![9] = "0"],
     [BaseVin1 EXCEPT ![10] = "I"],
     <<"S", "H", "O", "R", "T">>}

RawInputs ==
    LeadInputs \cup ProbeInputs \cup MixedInputs \cup LengthInputs \cup DecoratedInputs
        \cup ExampleInputs

NoResult == [none |-> TRUE]

\* How many requests the server works on at the same time
MaxWorkers == 2

Workers == 1..MaxWorkers

\* A worker that is not inside decode_vin or generate_vin
IdleCall == [pc |-> "idle", kind |-> "none", raw |-> <<>>, result |-> NoResult]

\* The local variables of decode_vin and generate_vin before they are bound
NoLocals == [vin |-> <<>>, wmi |-> <<>>, factory_entry |-> NoRow, wmi_country_entry |-> NoRow]

NoCalls == [w \in Workers |-> IdleCall]

NoFrames == [w \in Workers |-> NoLocals]

-----------------------------------------------------------------------------
(* The engine serving requests against a reference dataset.                *)

Init ==
    /\ countries = SampleCountries
    /\ wmi_region_codes = {}
    /\ wmi_regions \in SampleRegionTables
    /\ wmi_factories \in SampleFactoryTables
    /\ factory_logos = SampleLogos
    /\ current_year \in SampleYears
    /\ op = "none"
    /\ raw = <<>>
    /\ generated = <<>>
    /\ result = NoResult
    /\ log = <<>>
    /\ calls = NoCalls
    /\ frames = NoFrames
    /\ wmi_map = <<>>
    /\ wmi_rules = <<>>

\* api_decode that also records the WMI it was asked about
ApiDecode_recording ==
    /\ op = "none"
    /\ \E vin \in RawInputs :
        /\ op' = "decode"
        /\ raw' = vin
        /\ generated' = <<>>
        /\ result' \in decode_vin(vin, current_year)
        /\ wmi_factories' =
               wmi_factories \cup
                   {FactoryRow(Cardinality(wmi_factories) + 1,
                               LET v == Normalize(vin)
                               IN  SubSeq(v, 1, IF Len(v) < 3 THEN Len(v) ELSE 3),
                               UNKNOWN_MANUFACTURER, NoId, None)}
    /\ UNCHANGED <<wmi_map, wmi_rules, countries, wmi_region_codes, wmi_regions, factory_logos, current_year, log,
                   calls, frames>>

\* api_decode, routes.py lines 279-285: an idle worker serves one decode request
ApiDecode ==
    /\ op = "none"
    /\ \E vin \in RawInputs :
        /\ op' = "decode"
        /\ raw' = vin
        /\ generated' = <<>>
        /\ result' \in decode_vin(vin, current_year)
    /\ UNCHANGED <<wmi_map, wmi_rules, tables, current_year, log, calls, frames>>

\* api_generate, routes.py lines 287-292: generate_vin, then decode_vin of its value
ApiGenerate ==
    /\ op = "none"
    /\ \E vin \in generate_vin(current_year) :
        /\ op' = "generate"
        /\ raw' = vin
        /\ generated' = vin
        /\ result' \in decode_vin(vin, current_year)
    /\ UNCHANGED <<wmi_map, wmi_rules, tables, current_year, log, calls, frames>>

\* jsonify(result): the response is sent and the worker is idle again
Respond ==
    /\ op \in {"decode", "generate"}
    /\ op' = "none"
    /\ raw' = <<>>
    /\ generated' = <<>>
    /\ result' = NoResult
    /\ UNCHANGED <<wmi_map, wmi_rules, tables, current_year, log, calls, frames>>

Next == ApiDecode \/ ApiGenerate \/ Respond

Spec == Init /\ [][Next]_vars

\* A factory table as seed_wmi_factory_codes can leave it: the seeder stores
\* every part of a WMI text that is 3 characters long, whatever the characters
\* (wmi_factory_code_seeder.py lines 126-128)
SeededFactoryTable ==
    {FactoryRow(1, <<"1", "H", "G">>, HONDA, NoId, None),
     FactoryRow(2, <<"1", "O", "4">>, ISUZU, NoId, None)}

InitAsSeeded ==
    /\ countries = SampleCountries
    /\ wmi_region_codes = {}
    /\ wmi_regions = {}
    /\ wmi_factories = SeededFactoryTable
    /\ factory_logos = {}
    /\ current_year = 2025
    /\ op = "none"
    /\ raw = <<>>
    /\ generated = <<>>
    /\ result = NoResult
    /\ log = <<>>
    /\ calls = NoCalls
    /\ frames = NoFrames
    /\ wmi_map = <<>>
    /\ wmi_rules = <<>>

\* The engine serving requests against that dataset
SpecAsSeeded == InitAsSeeded /\ [][Next]_vars

-----------------------------------------------------------------------------
(* Requests served at the same time.  routes.py keeps no module-level      *)
(* variable besides its constant tables, db.session is scoped to the       *)
(* request, and every name decode_vin and generate_vin assign is a local   *)
(* of the call.  A step is what one call does between two points where     *)
(* another call can run: up to a query, or up to its return.               *)

\* One activation record for all calls instead of one per call
Frame_shared(w) == 1

\* The activation record of worker w's call: each call has its own
Frame(w) == w

\* The requests the concurrent model sends: both base VINs and a bad check digit
ConcInputs == {BaseVin1, Lower(BaseVin2), [BaseVin1 EXCEPT ![9] = "0"]}

ConcFactoryTable == {FactoryRow(1, <<"1", "H", "G">>, HONDA, 1, None)}

InitConc ==
    /\ countries = SampleCountries
    /\ wmi_region_codes = {}
    /\ wmi_regions = CHOOSE t \in SampleRegionTables : t # {}
    /\ wmi_factories = ConcFactoryTable
    /\ factory_logos = SampleLogos
    /\ current_year = 2010
    /\ op = "none"
    /\ raw = <<>>
    /\ generated = <<>>
    /\ result = NoResult
    /\ log = <<>>
    /\ calls = NoCalls
    /\ frames = NoFrames
    /\ wmi_map = <<>>
    /\ wmi_rules = <<>>

\* lines 101-103: decode_vin is entered and binds vin
DecodeCall(w) ==
    /\ calls[w].pc = "idle"
    /\ \E vin \in ConcInputs :
        /\ calls' = [calls EXCEPT ![w] = [pc |-> "validate", kind |-> "decode",
                                          raw |-> vin, result |-> NoResult]]
        /\ frames' = [frames EXCEPT ![Frame(w)] = [NoLocals EXCEPT !.vin = Normalize(vin)]]
    /\ UNCHANGED <<wmi_map, wmi_rules, tables, current_year, op, raw, generated, result, log>>

\* lines 105-123: the validations, which return an error or go on to the lookups
DecodeValidate(w) ==
    /\ calls[w].pc = "validate"
    /\ LET vin == frames[Frame(w)].vin
       IN  IF basic_validation(vin) # ""
           THEN calls' = [calls EXCEPT ![w].pc = "done",
                                       ![w].result = [error |-> basic_validation(vin)]]
           ELSE IF is_north_american(vin) /\ ~validate_check_digit(vin)
                THEN calls' = [calls EXCEPT ![w].pc = "done",
                                            ![w].result = [error |-> ERR_CHECK_DIGIT]]
                ELSE calls' = [calls EXCEPT ![w].pc = "tier1"]
    /\ UNCHANGED <<wmi_map, wmi_rules, tables, current_year, op, raw, generated, result, log, frames>>

\* lines 125-128: the Tier-1 query binds factory_entry
DecodeFactory(w) ==
    /\ calls[w].pc = "tier1"
    /\ \E f \in Scalar(factory_query(SubSeq(frames[Frame(w)].vin, 1, 3))) :
        frames' = [frames EXCEPT ![Frame(w)].factory_entry = f]
    /\ calls' = [calls EXCEPT ![w].pc = "tier2"]
    /\ UNCHANGED <<wmi_map, wmi_rules, tables, current_year, op, raw, generated, result, log>>

\* lines 130-159: the Tier-2 query binds wmi_country_entry
DecodeRegion(w) ==
    /\ calls[w].pc = "tier2"
    /\ \E r \in Scalar(wmi_country_query(frames[Frame(w)].vin[1])) :
        frames' = [frames EXCEPT ![Frame(w)].wmi_country_entry = r]
    /\ calls' = [calls EXCEPT ![w].pc = "assemble"]
    /\ UNCHANGED <<wmi_map, wmi_rules, tables, current_year, op, raw, generated, result, log>>

\* lines 161-220: the result is assembled from the locals and returned
DecodeAssemble(w) ==
    /\ calls[w].pc = "assemble"
    /\ LET locals == frames[Frame(w)]
       IN  calls' = [calls EXCEPT
                        ![w].pc = "done",
                        ![w].result = decode_record(locals.vin, current_year,
                                                    locals.factory_entry,
                                                    locals.wmi_country_entry)]
    /\ UNCHANGED <<wmi_map, wmi_rules, tables, current_year, op, raw, generated, result, log, frames>>

\* lines 222-227: generate_vin is entered, queries the factories and binds wmi
GenerateCall(w) ==
    /\ calls[w].pc = "idle"
    /\ \E wmi \in IF wmi_factories # {}
                  THEN {f.wmi : f \in wmi_factories}
                  ELSE random_choices(VIN_CHARACTERS, 3) :
        frames' = [frames EXCEPT ![Frame(w)] = [NoLocals EXCEPT !.wmi = wmi]]
    /\ calls' = [calls EXCEPT ![w] = [pc |-> "draw", kind |-> "generate",
                                      raw |-> <<>>, result |-> NoResult]]
    /\ UNCHANGED <<wmi_map, wmi_rules, tables, current_year, op, raw, generated, result, log>>

\* lines 228-243: the remaining sections are drawn and the VIN is returned
GenerateAssemble(w) ==
    /\ calls[w].pc = "draw"
    /\ \E vds \in random_choices(VIN_CHARACTERS, 5),
          y \in IF valid_years(current_year) # {} THEN valid_years(current_year) ELSE {"L"},
          plant_code \in random_choice(VIN_CHARACTERS),
          serial \in random_choices(DIGITS, 6) :
        calls' = [calls EXCEPT
                     ![w].pc = "done",
                     ![w].result = with_check_digit(frames[Frame(w)].wmi, vds, y,
                                                    plant_code, serial)]
    /\ UNCHANGED <<wmi_map, wmi_rules, tables, current_year, op, raw, generated, result, log, frames>>

\* lines 279-292: the route hands the value to the client; the call's locals
\* are gone and the worker is free
Return(w) ==
    /\ calls[w].pc = "done"
    /\ calls' = [calls EXCEPT ![w] = IdleCall]
    /\ frames' = [frames EXCEPT ![Frame(w)] = NoLocals]
    /\ UNCHANGED <<wmi_map, wmi_rules, tables, current_year, op, raw, generated, result, log>>

NextConc ==
    \E w \in Workers :
        \/ DecodeCall(w)
        \/ DecodeValidate(w)
        \/ DecodeFactory(w)
        \/ DecodeRegion(w)
        \/ DecodeAssemble(w)
        \/ GenerateCall(w)
        \/ GenerateAssemble(w)
        \/ Return(w)

SpecConc == InitConc /\ [][NextConc]_vars

-----------------------------------------------------------------------------
(* The data-build scripts (src/seed_countries.py,                          *)
(* src/wmi_region_code_seeder.py, src/fill_missing_ranges.py), which       *)
(* main.py runs against a newly created database.  A session is the pair   *)
(* of the rows it sees (cs, rc) and the rows last committed (ccs, crc);     *)
(* rollback returns to the committed rows.  The surrogate id of a          *)
(* wmi_region_codes row is read by nothing, so a row is its (code,          *)
(* country_id), which the table's unique constraint makes a key.           *)

\* How many scripts are run against one database
MaxOps == 3

AMERICAS == <<"A", "m", "e", "r", "i", "c", "a", "s">>

ANTARCTIC == <<"A", "n", "t", "a", "r", "c", "t", "i", "c">>

ANTARCTICA == <<"A", "n", "t", "a", "r", "c", "t", "i", "c", "a">>

NORTHERN_AMERICA == <<"N", "o", "r", "t", "h", "e", "r", "n", " ", "A", "m", "e", "r", "i", "c", "a">>

CENTRAL_AMERICA == <<"C", "e", "n", "t", "r", "a", "l", " ", "A", "m", "e", "r", "i", "c", "a">>

CARIBBEAN == <<"C", "a", "r", "i", "b", "b", "e", "a", "n">>

TURKEY == <<"T", "u", "r", "k", "e", "y">>

TURKIYE == <<"T", "u-diaeresis", "r", "k", "i", "y", "e">>

CZECH_REPUBLIC == <<"C", "z", "e", "c", "h", " ", "R", "e", "p", "u", "b", "l", "i", "c">>

CZECHIA == <<"C", "z", "e", "c", "h", "i", "a">>

SOUTH_AFRICA == <<"S", "o", "u", "t", "h", " ", "A", "f", "r", "i", "c", "a">>

\* map_region, seed_countries.py lines 34-51
map_region(region, subregion) ==
    CASE region = AFRICA -> AFRICA
      [] region = AMERICAS ->
            IF subregion \in {NORTHERN_AMERICA, CENTRAL_AMERICA, CARIBBEAN, NORTH_AMERICA}
            THEN NORTH_AMERICA
            ELSE SOUTH_AMERICA
      [] region = ASIA -> ASIA
      [] region = EUROPE -> EUROPE
      [] region = OCEANIA -> OCEANIA
      [] region = ANTARCTIC -> ANTARCTICA
      [] OTHER -> region

\* The id an INTEGER PRIMARY KEY column gives the next inserted row
NextId(rows) ==
    IF rows = {} THEN 1 ELSE 1 + (CHOOSE m \in {r.id : r \in rows} : \A r \in rows : r.id <= m)

\* seed_countries without lines 137-151: no Unknown country is added
seed_countries_no_sentinel(countries_data, table) ==
    LET existing_countries == {c.iso_alpha2 : c \in table}
        IsNew(d) == Truthy(d.cca2) /\ d.cca2 \notin existing_countries
        IsUS(d) == d.cca2 = <<"U", "S">> /\ d.cca2 \in existing_countries
        to_insert == SelectSeq(countries_data, IsNew)
        us_entries == SelectSeq(countries_data, IsUS)
        base == NextId(table) - 1
        inserted == {CountryRow(base + i, to_insert[i].cca2, to_insert[i].cca3,
                                to_insert[i].common,
                                map_region(to_insert[i].region, to_insert[i].subregion),
                                to_insert[i].flag) : i \in DOMAIN to_insert}
        unknown_country == {}
        updated ==
            {IF c.iso_alpha2 = <<"U", "S">> /\ us_entries # <<>>
             THEN [c EXCEPT !.region = map_region(us_entries[Len(us_entries)].region,
                                                  us_entries[Len(us_entries)].subregion)]
             ELSE c : c \in table}
        added == inserted \cup unknown_country
        after == updated \cup added
        integrity_error ==
            \/ \E r \in added : r.common_name = None
            \/ \E r1 \in added, r2 \in after :
                /\ r1.id # r2.id
                /\ \/ r1.iso_alpha2 = r2.iso_alpha2
                   \/ r1.iso_alpha3 # None /\ r1.iso_alpha3 = r2.iso_alpha3
    IN  IF integrity_error
        THEN [raised |-> TRUE, countries |-> table]
        ELSE [raised |-> FALSE, countries |-> after]

\* seed_countries, seed_countries.py lines 79-165.  The rows are flushed by the
\* one commit at the end: a duplicate iso_alpha2 or iso_alpha3, or a row
\* without a name, fails the commit, and the except branch rolls everything
\* back and re-raises.
seed_countries(countries_data, table) ==
    LET existing_countries == {c.iso_alpha2 : c \in table}
        IsNew(d) == Truthy(d.cca2) /\ d.cca2 \notin existing_countries
        IsUS(d) == d.cca2 = <<"U", "S">> /\ d.cca2 \in existing_countries
        to_insert == SelectSeq(countries_data, IsNew)
        us_entries == SelectSeq(countries_data, IsUS)
        base == NextId(table) - 1
        inserted == {CountryRow(base + i, to_insert[i].cca2, to_insert[i].cca3,
                                to_insert[i].common,
                                map_region(to_insert[i].region, to_insert[i].subregion),
                                to_insert[i].flag) : i \in DOMAIN to_insert}
        unknown_country ==
            IF <<"X", "X">> \in existing_countries
            THEN {}
            ELSE {CountryRow(base + Len(to_insert) + 1, <<"X", "X">>, <<"X", "X", "X">>,
                             UNKNOWN, UNKNOWN, WHITE_FLAG_EMOJI)}
        updated ==
            {IF c.iso_alpha2 = <<"U", "S">> /\ us_entries # <<>>
             THEN [c EXCEPT !.region = map_region(us_entries[Len(us_entries)].region,
                                                  us_entries[Len(us_entries)].subregion)]
             ELSE c : c \in table}
        added == inserted \cup unknown_country
        after == updated \cup added
        integrity_error ==
            \/ \E r \in added : r.common_name = None
            \/ \E r1 \in added, r2 \in after :
                /\ r1.id # r2.id
                /\ \/ r1.iso_alpha2 = r2.iso_alpha2
                   \/ r1.iso_alpha3 # None /\ r1.iso_alpha3 = r2.iso_alpha3
    IN  IF integrity_error
        THEN [raised |-> TRUE, countries |-> table]
        ELSE [raised |-> FALSE, countries |-> after]

KNOWN_REGIONS ==
    <<AFRICA, ASIA, EUROPE, NORTH_AMERICA, SOUTH_AMERICA, OCEANIA, ANTARCTICA>>

REGION_CODE_MAP ==
    [n \in Range(KNOWN_REGIONS) |->
        CASE n = AFRICA -> <<<<"0", "A">>, <<"0", "A", "F">>>>
          [] n = ASIA -> <<<<"0", "S">>, <<"0", "A", "S">>>>
          [] n = EUROPE -> <<<<"0", "E">>, <<"0", "E", "U">>>>
          [] n = NORTH_AMERICA -> <<<<"0", "N">>, <<"0", "N", "A">>>>
          [] n = SOUTH_AMERICA -> <<<<"0", "U">>, <<"0", "S", "A">>>>
          [] n = OCEANIA -> <<<<"0", "C">>, <<"0", "O", "C">>>>
          [] n = ANTARCTICA -> <<<<"0", "T">>, <<"0", "A", "N">>>>]

NAME_MAPPING ==
    [n \in {TURKEY, CZECH_REPUBLIC, CZECHIA, <<"S", "A">>} |->
        CASE n = TURKEY -> TURKIYE
          [] n = CZECH_REPUBLIC -> CZECHIA
          [] n = CZECHIA -> CZECH_REPUBLIC
          [] n = <<"S", "A">> -> SOUTH_AMERICA]

\* str.split(sep)
RECURSIVE Split(_, _)
Split(s, sep) ==
    IF ~Contains(s, sep)
    THEN <<s>>
    ELSE LET i == CHOOSE k \in DOMAIN s : s[k] = sep /\ \A j \in 1..(k - 1) : s[j] # sep
         IN  <<SubSeq(s, 1, i - 1)>> \o Split(SubSeq(s, i + 1, Len(s)), sep)

\* The concatenation of the first n of a sequence of lists
RECURSIVE Flatten(_, _)
Flatten(lists, n) == IF n = 0 THEN <<>> ELSE Flatten(lists, n - 1) \o lists[n]

\* What a call of expand_range gives: the list it returns, or an exception
Returned(codes) == [raised |-> FALSE, codes |-> codes]

Raised == [raised |-> TRUE, codes |-> <<>>]

\* expand_range, wmi_region_code_seeder.py lines 50-89.  The unpacking
\* `start, end = range_str.split('-')` raises ValueError unless there is
\* exactly one '-'; that ValueError is outside the try of lines 72-79.
RECURSIVE expand_range(_)
expand_range(range_in) ==
    LET range_str == Strip(range_in)
    IN  IF Contains(range_str, ",")
        THEN LET parts == Split(range_str, ",")
                 sub == [i \in DOMAIN parts |-> expand_range(Strip(parts[i]))]
                 lists == [i \in DOMAIN parts |-> sub[i].codes]
             IN  IF \E i \in DOMAIN parts : sub[i].raised
                 THEN Raised
                 ELSE Returned(Flatten(lists, Len(lists)))
        ELSE IF Contains(range_str, "-")
        THEN LET parts == Split(range_str, "-")
             IN  IF Len(parts) # 2
                 THEN Raised
                 ELSE LET start == Strip(parts[1])
                          end == Strip(parts[2])
                      IN  IF /\ Len(start) = 2
                             /\ Len(end) = 2
                             /\ Contains(SEED_VIN_CHARACTERS, start[2])
                             /\ Contains(SEED_VIN_CHARACTERS, end[2])
                          THEN LET start_idx == IndexOf(SEED_VIN_CHARACTERS, start[2])
                                   end_idx == IndexOf(SEED_VIN_CHARACTERS, end[2])
                               IN  IF end_idx < start_idx
                                   THEN Returned(<<>>)
                                   ELSE Returned([k \in 1..(end_idx - start_idx + 1) |->
                                            <<start[1], SEED_VIN_CHARACTERS[start_idx + k - 1]>>])
                          ELSE Returned(<<>>)
        ELSE IF Len(range_str) = 1
        THEN Returned([k \in DOMAIN SEED_VIN_CHARACTERS |->
                          <<range_str[1], SEED_VIN_CHARACTERS[k]>>])
        ELSE IF Len(range_str) = 2
        THEN Returned(<<range_str>>)
        ELSE Returned(<<>>)

\* Country.find_by_name, country.py lines 31-36: lower(common_name) = lower(name),
\* first row.  common_name is distinct in every table the model builds.
find_by_name(name, table) ==
    LET found == {c \in table : c.common_name # None /\ Lower(c.common_name) = Lower(name)}
    IN  IF found = {}
        THEN NoRow
        ELSE CHOOSE c \in found : \A d \in found : c.id <= d.id

\* find_or_create_region, wmi_region_code_seeder.py lines 91-134.  The commit of
\* line 124 commits the pending rows of the session too; the rollback of line
\* 127 discards them.
find_or_create_region(location_name, st) ==
    LET country == find_by_name(location_name, st.cs)
    IN  IF country # NoRow
        THEN [st |-> st, country |-> country]
        ELSE IF Contains(KNOWN_REGIONS, location_name)
        THEN LET iso == REGION_CODE_MAP[location_name]
                 new_region == CountryRow(NextId(st.cs), iso[1], iso[2], location_name,
                                          location_name, GLOBE_EMOJI)
                 added == st.cs \cup {new_region}
                 rolled == [st EXCEPT !.cs = st.ccs, !.rc = st.crc]
             IN  IF \E c \in st.cs : c.iso_alpha2 = iso[1] \/ c.iso_alpha3 = iso[2]
                 THEN [st |-> rolled, country |-> find_by_name(location_name, rolled.cs)]
                 ELSE [st |-> [cs |-> added, rc |-> st.rc, ccs |-> added, crc |-> st.rc],
                       country |-> new_region]
        ELSE [st |-> st, country |-> NoRow]

RegionCodeRow(code, country_id) == [code |-> code, country_id |-> country_id]

\* The loop of seed_wmi_region_codes, lines 156-207, from entry i on
RECURSIVE seed_entries(_, _, _)
seed_entries(wmi_data, i, st) ==
    IF i > Len(wmi_data)
    THEN [raised |-> FALSE, st |-> st]
    ELSE LET range_str == wmi_data[i].range
             location_name == wmi_data[i].country
             normalized_name == IF location_name \in DOMAIN NAME_MAPPING
                                THEN NAME_MAPPING[location_name]
                                ELSE location_name
             found == find_or_create_region(normalized_name, st)
             country_or_region == found.country
             expanded == expand_range(range_str)
             new_codes == {RegionCodeRow(code, country_or_region.id) :
                              code \in Range(expanded.codes)}
         IN  IF country_or_region = NoRow
             THEN seed_entries(wmi_data, i + 1, found.st)
             ELSE IF expanded.raised
             THEN [raised |-> TRUE, st |-> found.st]
             ELSE seed_entries(wmi_data, i + 1, [found.st EXCEPT !.rc = @ \cup new_codes])

\* seed_wmi_region_codes, wmi_region_code_seeder.py lines 136-231
seed_wmi_region_codes(file_exists, wmi_data, cs, rc) ==
    IF ~file_exists
    THEN [status |-> "no_file", countries |-> cs, wmi_region_codes |-> rc]
    ELSE LET done == seed_entries(wmi_data, 1, [cs |-> cs, rc |-> rc, ccs |-> cs, crc |-> rc])
         IN  IF done.raised
             THEN [status |-> "raised", countries |-> done.st.ccs,
                   wmi_region_codes |-> done.st.crc]
             ELSE [status |-> "ok", countries |-> done.st.cs,
                   wmi_region_codes |-> done.st.rc]

\* fill_missing_wmi_ranges without line 44: a row for every code, mapped or not
fill_missing_wmi_ranges_every_code(cs, rc) ==
    LET unknown_country == {c \in cs : c.iso_alpha2 = <<"X", "X">>}
        all_possible_codes == {<<first_char, second_char>> :
                                  first_char \in Range(SEED_VIN_CHARACTERS),
                                  second_char \in Range(SEED_VIN_CHARACTERS)}
        existing_codes == {r.code : r \in rc}
        missing_codes == all_possible_codes
    IN  IF unknown_country = {}
        THEN [status |-> "no_unknown", wmi_region_codes |-> rc]
        ELSE [status |-> "ok",
              wmi_region_codes |-> rc \cup {RegionCodeRow(code, (CHOOSE c \in unknown_country : TRUE).id) :
                                                code \in missing_codes}]

\* fill_missing_wmi_ranges, fill_missing_ranges.py lines 21-89
fill_missing_wmi_ranges(cs, rc) ==
    LET unknown_country == {c \in cs : c.iso_alpha2 = <<"X", "X">>}
        all_possible_codes == {<<first_char, second_char>> :
                                  first_char \in Range(SEED_VIN_CHARACTERS),
                                  second_char \in Range(SEED_VIN_CHARACTERS)}
        existing_codes == {r.code : r \in rc}
        missing_codes == all_possible_codes \ existing_codes
    IN  IF unknown_country = {}
        THEN [status |-> "no_unknown", wmi_region_codes |-> rc]
        ELSE [status |-> "ok",
              wmi_region_codes |-> rc \cup {RegionCodeRow(code, (CHOOSE c \in unknown_country : TRUE).id) :
                                                code \in missing_codes}]

\* One entry of the countries JSON (restcountries): the fields seed_countries reads
CountryData(cca2, cca3, common, region, subregion, flag) ==
    [cca2 |-> cca2, cca3 |-> cca3, common |-> common, region |-> region,
     subregion |-> subregion, flag |-> flag]

US_DATA == CountryData(<<"U", "S">>, <<"U", "S", "A">>, UNITED_STATES, AMERICAS, NORTHERN_AMERICA, US_FLAG)

US_DATA_SOUTH == CountryData(<<"U", "S">>, <<"U", "S", "A">>, UNITED_STATES, AMERICAS, AMERICAS, US_FLAG)

JP_DATA == CountryData(<<"J", "P">>, <<"J", "P", "N">>, JAPAN, ASIA, ASIA, JP_FLAG)

ZA_DATA == CountryData(<<"Z", "A">>, <<"Z", "A", "F">>, SOUTH_AFRICA, AFRICA, AFRICA, GLOBE_EMOJI)

CZ_DATA == CountryData(<<"C", "Z">>, <<"C", "Z", "E">>, CZECHIA, EUROPE, EUROPE, GLOBE_EMOJI)

NO_CODE_DATA == CountryData(None, None, ANTARCTICA, ANTARCTIC, None, GLOBE_EMOJI)

\* Country lists a download can give: the usual one, one with an entry without
\* a code, one with a repeated entry, one that moves the United States
SampleCountryData ==
    {<<US_DATA, JP_DATA, ZA_DATA>>,
     <<JP_DATA, NO_CODE_DATA, CZ_DATA>>,
     <<JP_DATA, ZA_DATA, JP_DATA>>,
     <<US_DATA_SOUTH, ZA_DATA>>}

WmiEntry(range, country) == [range |-> range, country |-> country]

\* Range lists a scrape can give: ranges, lists and single characters of
\* countries; regions and mapped names with overlapping ranges; an unknown
\* name and a range with two dashes
SampleWmiData ==
    {<<WmiEntry(<<"J", "A", "-", "J", "0">>, JAPAN),
       WmiEntry(<<"1", ",", " ", "4", ",", " ", "5">>, UNITED_STATES),
       WmiEntry(<<"A", "A", "-", "A", "H">>, SOUTH_AFRICA)>>,
     <<WmiEntry(<<"J">>, JAPAN),
       WmiEntry(<<"J", "S", "-", "J", "T">>, ASIA),
       WmiEntry(<<"8", "A", "-", "8", "E">>, <<"S", "A">>),
       WmiEntry(<<"K", "L">>, <<"K", "o", "r", "e", "a">>)>>,
     <<WmiEntry(<<"T", "J", "-", "T", "P">>, CZECH_REPUBLIC),
       WmiEntry(<<"A", "A", "-", "A", "H">>, AFRICA),
       WmiEntry(<<"J", "A", "-", "J", "H", "-", "J", "K">>, JAPAN)>>}

\* initialize_database, main.py lines 40-52: every table exists and is empty
InitBuild ==
    /\ countries = {}
    /\ wmi_region_codes = {}
    /\ wmi_regions = {}
    /\ wmi_factories = {}
    /\ factory_logos = {}
    /\ current_year = 2025
    /\ op = "none"
    /\ raw = <<>>
    /\ generated = <<>>
    /\ result = NoResult
    /\ log = <<>>
    /\ calls = NoCalls
    /\ frames = NoFrames
    /\ wmi_map = <<>>
    /\ wmi_rules = <<>>

\* seed_countries.main: download_countries, then seed_countries of its list
SeedCountries ==
    /\ Len(log) < MaxOps
    /\ \E countries_data \in SampleCountryData :
        LET done == seed_countries(countries_data, countries)
        IN  /\ countries' = done.countries
            /\ log' = Append(log, IF done.raised THEN "seed_countries:raised"
                                  ELSE "seed_countries")
    /\ UNCHANGED <<wmi_map, wmi_rules, wmi_region_codes, wmi_regions, wmi_factories, factory_logos,
                   current_year, op, raw, generated, result, calls, frames>>

\* seed_wmi_region_codes on the file the scrape left, if any
SeedWmiRegionCodes ==
    /\ Len(log) < MaxOps
    /\ \E file_exists \in BOOLEAN, wmi_data \in SampleWmiData :
        LET done == seed_wmi_region_codes(file_exists, wmi_data, countries, wmi_region_codes)
        IN  /\ countries' = done.countries
            /\ wmi_region_codes' = done.wmi_region_codes
            /\ log' = Append(log, IF done.status = "ok" THEN "seed_wmi_region_codes"
                                  ELSE IF done.status = "raised"
                                  THEN "seed_wmi_region_codes:raised"
                                  ELSE "seed_wmi_region_codes:no_file")
    /\ UNCHANGED <<wmi_map, wmi_rules, wmi_regions, wmi_factories, factory_logos,
                   current_year, op, raw, generated, result, calls, frames>>

\* fill_missing_wmi_ranges
FillMissingWmiRanges ==
    /\ Len(log) < MaxOps
    /\ LET done == fill_missing_wmi_ranges(countries, wmi_region_codes)
       IN  /\ wmi_region_codes' = done.wmi_region_codes
           /\ log' = Append(log, IF done.status = "ok" THEN "fill_missing_wmi_ranges"
                                 ELSE "fill_missing_wmi_ranges:no_unknown")
    /\ UNCHANGED <<wmi_map, wmi_rules, countries, wmi_regions, wmi_factories, factory_logos,
                   current_year, op, raw, generated, result, calls, frames>>

NextBuild == SeedCountries \/ SeedWmiRegionCodes \/ FillMissingWmiRanges

SpecBuild == InitBuild /\ [][NextBuild]_vars

-----------------------------------------------------------------------------
(* src/wmi_factory_code_seeder.py: the script that fills wmi_factories     *)
(* from the scraped list of manufacturers.  It reads wmi_regions and       *)
(* countries; its one commit is at the end, and an exception rolls back    *)
(* every row of the run.                                                   *)

\* expand_wmi_range, wmi_factory_code_seeder.py lines 25-62.  The unpacking
\* `start, end = range_str.split('-')` raises ValueError unless there is
\* exactly one '-'; the try of lines 45-53 covers only the two index() calls.
expand_wmi_range(range_in) ==
    LET range_str == Strip(range_in)
    IN  IF Contains(range_str, "-")
        THEN LET parts == Split(range_str, "-")
             IN  IF Len(parts) # 2
                 THEN Raised
                 ELSE LET start == Strip(parts[1])
                          end == Strip(parts[2])
                      IN  IF Len(start) = 3 /\ Len(end) = 3
                          THEN IF /\ Contains(SEED_VIN_CHARACTERS, start[3])
                                  /\ Contains(SEED_VIN_CHARACTERS, end[3])
                               THEN LET start_idx == IndexOf(SEED_VIN_CHARACTERS, start[3])
                                        end_idx == IndexOf(SEED_VIN_CHARACTERS, end[3])
                                    IN  IF end_idx < start_idx
                                        THEN Returned(<<>>)
                                        ELSE Returned([k \in 1..(end_idx - start_idx + 1) |->
                                                 SubSeq(start, 1, 2)
                                                     \o <<SEED_VIN_CHARACTERS[start_idx + k - 1]>>])
                               ELSE Returned(<<>>)
                          ELSE Returned(<<>>)
        ELSE IF Len(range_str) = 3
        THEN Returned(<<range_str>>)
        ELSE Returned(<<>>)

\* re.match(r'[A-Z0-9]{3}-[A-Z0-9]{3}', part), line 127: a match at the start
range_pattern(part) ==
    LET alnum == Range(ASCII_UPPERCASE) \cup Range(DIGITS)
    IN  /\ Len(part) >= 7
        /\ \A i \in {1, 2, 3, 5, 6, 7} : part[i] \in alnum
        /\ part[4] = "-"

\* lines 118-121: spaces and slashes become commas; the non-empty parts, stripped
wmi_parts(wmi_raw) ==
    LET wmi_normalized == [i \in DOMAIN wmi_raw |->
                              IF wmi_raw[i] \in {" ", "/"} THEN "," ELSE wmi_raw[i]]
        pieces == Split(wmi_normalized, ",")
        stripped == [i \in DOMAIN pieces |-> Strip(pieces[i])]
    IN  SelectSeq(stripped, Truthy)

\* lines 123-137: the codes of one part
part_codes(part) ==
    IF Len(part) = 3
    THEN Returned(<<part>>)
    ELSE IF range_pattern(part)
    THEN expand_wmi_range(part)
    ELSE IF Len(part) = 2
    THEN expand_wmi_range(part \o <<SEED_VIN_CHARACTERS[1]>> \o <<"-">> \o part
                              \o <<SEED_VIN_CHARACTERS[Len(SEED_VIN_CHARACTERS)]>>)
    ELSE Returned(<<>>)

\* lines 114-137: wmi_codes of one entry
entry_codes(wmi_raw) ==
    LET parts == wmi_parts(wmi_raw)
        sub == [i \in DOMAIN parts |-> part_codes(parts[i])]
        lists == [i \in DOMAIN parts |-> sub[i].codes]
    IN  IF \E i \in DOMAIN parts : sub[i].raised
        THEN Raised
        ELSE Returned(Flatten(lists, Len(lists)))

\* `manufacturer not in existing.name`, line 177: substring test
Within(sub, s) ==
    \E i \in 0..(Len(s) - Len(sub)) : SubSeq(s, i + 1, i + Len(sub)) = sub

\* The loop over wmi_codes, lines 147-200.  A code with a row gets the
\* manufacturer appended to the row's name unless the name holds it already; a
\* code without a row gets one, in the order of the list, and a later
\* occurrence of the same code then finds the manufacturer in the name.
seed_factory_codes(wmi_codes, manufacturer, factories) ==
    LET wmi_region_entry(wmi) ==
            LET found == {r \in wmi_regions : r.code = SubSeq(wmi, 1, 2)}
            IN  IF found = {} THEN NoRow ELSE CHOOSE r \in found : TRUE
        country_obj(wmi) ==
            IF wmi_region_entry(wmi) = NoRow THEN NoRow ELSE CountryOf(wmi_region_entry(wmi))
        is_region(wmi) ==
            country_obj(wmi) # NoRow /\ Contains(KNOWN_REGIONS, country_obj(wmi).common_name)
        country_id(wmi) ==
            IF country_obj(wmi) # NoRow /\ ~is_region(wmi) THEN country_obj(wmi).id ELSE NoId
        region_name(wmi) == IF is_region(wmi) THEN country_obj(wmi).common_name ELSE None
        existing == {f.wmi : f \in factories}
        created == {k \in DOMAIN wmi_codes :
                       /\ wmi_codes[k] \notin existing
                       /\ \A j \in 1..(k - 1) : wmi_codes[j] # wmi_codes[k]}
        base == NextId(factories) - 1
    IN  {IF Contains(wmi_codes, f.wmi) /\ ~Within(manufacturer, f.name)
         THEN [f EXCEPT !.name = f.name \o <<" ", "&", " ">> \o manufacturer]
         ELSE f : f \in factories}
        \cup {FactoryRow(base + Cardinality({j \in created : j <= k}), wmi_codes[k],
                         manufacturer, country_id(wmi_codes[k]), region_name(wmi_codes[k])) :
                  k \in created}

\* the loop over the entries, lines 104-200, from entry i on
RECURSIVE seed_factory_entries(_, _, _)
seed_factory_entries(factory_data, i, factories) ==
    IF i > Len(factory_data)
    THEN [raised |-> FALSE, wmi_factories |-> factories]
    ELSE LET wmi_raw == Strip(factory_data[i].WMI)
             manufacturer == Strip(factory_data[i].Manufacturer)
             parsed == entry_codes(wmi_raw)
         IN  IF ~Truthy(manufacturer)
             THEN seed_factory_entries(factory_data, i + 1, factories)
             ELSE IF parsed.raised
             THEN [raised |-> TRUE, wmi_factories |-> factories]
             ELSE seed_factory_entries(factory_data, i + 1,
                      seed_factory_codes(parsed.codes, manufacturer, factories))

\* seed_wmi_factory_codes, wmi_factory_code_seeder.py lines 83-227
seed_wmi_factory_codes(file_exists, factory_data, factories) ==
    IF ~file_exists
    THEN [status |-> "no_file", wmi_factories |-> factories]
    ELSE LET done == seed_factory_entries(factory_data, 1, factories)
         IN  IF done.raised
             THEN [status |-> "raised", wmi_factories |-> factories]
             ELSE [status |-> "ok", wmi_factories |-> done.wmi_factories]

\* One entry of wmi_factory_codes.json
FactoryEntry(wmi, manufacturer) == [WMI |-> wmi, Manufacturer |-> manufacturer]

ACURA == <<"A", "c", "u", "r", "a">>

\* Manufacturer lists a scrape can give: single codes, a list with a range, a
\* two-character block; a repeated code with another name, a code typed with
\* the letter O, a lower-case code, a block of forbidden letters; an entry
\* without a name, a text that is no code, a range with two dashes
SampleFactoryData ==
    {<<FactoryEntry(<<"1", "H", "G">>, HONDA),
       FactoryEntry(<<"J", "H", "F", "-", "J", "H", "G", ",", " ", "J", "H", "Z">>, HONDA),
       FactoryEntry(<<"A", "H">>, ISUZU)>>,
     <<FactoryEntry(<<"1", "H", "G">>, ACURA),
       FactoryEntry(<<"1", "O", "4">>, ISUZU),
       FactoryEntry(<<"j", "a", "c", "/", "J", "A", "C">>, ISUZU)>>,
     <<FactoryEntry(<<"J", "A", "C">>, <<>>),
       FactoryEntry(<<"I", "O", "X", "-", "I", "O", "Z">>, ISUZU),
       FactoryEntry(<<"H", "O", "N", "D", "A">>, HONDA)>>,
     <<FactoryEntry(<<"J", "A", "C">>, ISUZU),
       FactoryEntry(<<"J", "H", "F", "-", "J", "H", "G", "-", "J", "H", "K">>, HONDA)>>}

\* The factory seeder starts on a database whose countries are seeded; the
\* table it consults, wmi_regions, is empty or filled
InitFactories ==
    /\ countries = SampleCountries
    /\ wmi_region_codes = {}
    /\ wmi_regions \in SampleRegionTables
    /\ wmi_factories = {}
    /\ factory_logos = {}
    /\ current_year = 2010
    /\ op = "none"
    /\ raw = <<>>
    /\ generated = <<>>
    /\ result = NoResult
    /\ log = <<>>
    /\ calls = NoCalls
    /\ frames = NoFrames
    /\ wmi_map = <<>>
    /\ wmi_rules = <<>>

\* seed_wmi_factory_codes on the file the scrape left, if any
SeedWmiFactoryCodes ==
    /\ op = "none"
    /\ Len(log) < MaxOps
    /\ \E file_exists \in BOOLEAN, factory_data \in SampleFactoryData :
        LET done == seed_wmi_factory_codes(file_exists, factory_data, wmi_factories)
        IN  /\ wmi_factories' = done.wmi_factories
            /\ log' = Append(log, IF done.status = "ok" THEN "seed_wmi_factory_codes"
                                  ELSE IF done.status = "raised"
                                  THEN "seed_wmi_factory_codes:raised"
                                  ELSE "seed_wmi_factory_codes:no_file")
    /\ UNCHANGED <<wmi_map, wmi_rules, countries, wmi_region_codes, wmi_regions, factory_logos,
                   current_year, op, raw, generated, result, calls, frames>>

\* The factory table is seeded, and the engine generates from it
NextFactories == SeedWmiFactoryCodes \/ ApiGenerate \/ Respond

SpecFactories == InitFactories /\ [][NextFactories]_vars

-----------------------------------------------------------------------------
(* The region scraper, src/scrape_wmi_regions.py: the Wikibooks table is    *)
(* read row by row into wmi_map, and wmi_map is consolidated into rules of  *)
(* a range and a country, which are saved as wmi_region_codes.json.  A row  *)
(* is the list of its cells, cells[0] included; a cell is its text          *)
(* (get_text(strip=True)), its colspan and its rowspan.  Indices of columns *)
(* and cells are Python's (from 0).                                         *)

\* How many country cells a sample row holds
MaxCells == 3

\* VIN_CHARACTERS of scrape_wmi_regions.py, lines 13-17
SCRAPE_VIN_CHARACTERS ==
    <<"A", "B", "C", "D", "E", "F", "G", "H", "J", "K", "L", "M",
      "N", "P", "R", "S", "T", "U", "V", "W", "X", "Y", "Z",
      "1", "2", "3", "4", "5", "6", "7", "8", "9", "0">>

COLUMN_HEADERS ==
    <<"A", "B", "C", "D", "E", "F", "G", "H", "J", "K", "L", "M", "N", "P", "R", "S", "T",
      "U", "V", "W", "X", "Y", "Z", "1", "2", "3", "4", "5", "6", "7", "8", "9", "0">>

COLUMN_COUNT == 33

format_range(start_char, end_char, row_letter) ==
    LET start == <<row_letter, start_char>>
        end == <<row_letter, end_char>>
    IN  IF start = end THEN start ELSE start \o <<"-">> \o end

\* normalize_country_name, lines 77-91.  The text of a cell holds no markup
\* (get_text drops the tags), so split('<small>')[0] is the whole text.
normalize_country_name(country_in) ==
    LET replacements ==
            {
             <<<<"S", "w", "a", "z", "i", "l", "a", "n", "d">>,
               <<"E", "s", "w", "a", "t", "i", "n", "i">>>>,
             <<<<"U", "A", "E">>,
               <<"U", "n", "i", "t", "e", "d", " ", "A", "r", "a", "b", " ", "E", "m", "i",
                 "r", "a", "t", "e", "s">>>>,
             <<<<"D", "o", "m", ".", " ", "R", "e", "p", ".">>,
               <<"D", "o", "m", "i", "n", "i", "c", "a", "n", " ", "R", "e", "p", "u", "b",
                 "l", "i", "c">>>>,
             <<<<"B", "o", "s", "n", "i", "a", " ", "&", " ", "H", "e", "r", "z", "o", "g",
                 "o", "v", "i", "n", "a">>,
               <<"B", "o", "s", "n", "i", "a", " ", "a", "n", "d", " ", "H", "e", "r", "z",
                 "e", "g", "o", "v", "i", "n", "a">>>>,
             <<<<"B", "o", "s", "n", "i", "a", " ", "&", " ", "H", "e", "r", "z", "e", "g",
                 "o", "v", "i", "n", "a">>,
               <<"B", "o", "s", "n", "i", "a", " ", "a", "n", "d", " ", "H", "e", "r", "z",
                 "e", "g", "o", "v", "i", "n", "a">>>>
            }
        country == Strip(country_in)
        hits == {r \in replacements : r[1] = country}
    IN  IF hits = {} THEN country ELSE (CHOOSE r \in hits : TRUE)[2]

\* The while loop of lines 142-183 on one row, from column col_cursor on.  A
\* colspan that runs past the last column makes COLUMN_HEADERS[i] raise
\* IndexError.  The value holds the map and the claims kept by lines 187-189.
RECURSIVE fill_row(_, _, _, _, _, _, _)
fill_row(row_letter, cells, claimed_cells, col_cursor, cell_cursor, new_claimed_cells, map) ==
    IF col_cursor >= COLUMN_COUNT
    THEN [raised |-> FALSE,
          wmi_map |-> map,
          claimed_cells |-> [k \in {c \in DOMAIN new_claimed_cells :
                                        new_claimed_cells[c].rowspan > 0} |->
                                 new_claimed_cells[k]]]
    ELSE LET claimed == col_cursor \in DOMAIN claimed_cells
             fresh == ~claimed /\ cell_cursor < Len(cells)
             cell == cells[cell_cursor + 1]
             country == IF claimed THEN claimed_cells[col_cursor].country
                        ELSE IF fresh THEN cell.text ELSE None
             colspan == IF claimed THEN claimed_cells[col_cursor].colspan
                        ELSE IF fresh THEN cell.colspan ELSE 1
             claims ==
                 IF claimed
                 THEN (col_cursor :> [country |-> country,
                                      rowspan |-> claimed_cells[col_cursor].rowspan - 1,
                                      colspan |-> colspan]) @@ new_claimed_cells
                 ELSE IF fresh /\ cell.rowspan > 1 /\ Truthy(country)
                 THEN (col_cursor :> [country |-> country,
                                      rowspan |-> cell.rowspan - 1,
                                      colspan |-> colspan]) @@ new_claimed_cells
                 ELSE new_claimed_cells
             name == Strip(Split(normalize_country_name(country), "(")[1])
             spanned == {<<row_letter, COLUMN_HEADERS[i + 1]>> :
                             i \in col_cursor..(col_cursor + colspan - 1)}
         IN  IF Truthy(country) /\ col_cursor + colspan > COLUMN_COUNT
             THEN [raised |-> TRUE, wmi_map |-> map, claimed_cells |-> <<>>]
             ELSE fill_row(row_letter, cells, claimed_cells, col_cursor + colspan,
                           IF fresh THEN cell_cursor + 1 ELSE cell_cursor, claims,
                           IF Truthy(country)
                           THEN [code \in DOMAIN map \cup spanned |->
                                    IF code \in spanned THEN name ELSE map[code]]
                           ELSE map)

\* The loop over the rows of the table, lines 120-189, from row i on
RECURSIVE fill_rows(_, _, _, _)
fill_rows(rows, i, claimed_cells, map) ==
    IF i > Len(rows)
    THEN [raised |-> FALSE, wmi_map |-> map, claimed_cells |-> claimed_cells]
    ELSE LET cells == rows[i]
             is_header_row == cells # <<>> /\ cells[1].text \in {<<>>, <<" ">>}
             row_letter == IF cells = <<>> THEN None ELSE cells[1].text
             skipped ==
                 \/ is_header_row
                 \/ (Len(cells) < 2 /\ DOMAIN claimed_cells = {})
                 \/ ~Truthy(row_letter)
                 \/ Len(row_letter) > 1
             filled == fill_row(row_letter[1], cells, claimed_cells, 0, 1, <<>>, map)
         IN  IF skipped THEN fill_rows(rows, i + 1, claimed_cells, map)
             ELSE IF filled.raised THEN filled
             ELSE fill_rows(rows, i + 1, filled.claimed_cells, filled.wmi_map)

\* The loop over the codes of one row, lines 209-240, from the i-th code on.
\* None and '' are both <<>> here; they differ in Python only in when
\* current_range_start is set, and no range is emitted while the country is
\* either of them.
RECURSIVE consolidate_row(_, _, _, _, _, _, _)
consolidate_row(row, codes_in_row, map, i, current_country, current_range_start, wmi_rules_in) ==
    IF i > Len(codes_in_row) THEN wmi_rules_in
    ELSE LET code == codes_in_row[i]
             country == map[code]
             changed == country # current_country
             prev_char_index == IndexOf(COLUMN_HEADERS, code[2]) - 2
             end_char == IF prev_char_index >= 0 THEN COLUMN_HEADERS[prev_char_index + 1]
                         ELSE code[2]
             finalized ==
                 IF changed /\ Truthy(current_country) /\ Truthy(current_range_start)
                 THEN Append(wmi_rules_in,
                             [range |-> format_range(current_range_start[2], end_char, row),
                              country |-> current_country])
                 ELSE wmi_rules_in
             next_country == IF changed THEN country ELSE current_country
             next_start == IF changed THEN code ELSE current_range_start
             last == IF i = Len(codes_in_row) /\ Truthy(next_country) /\ Truthy(next_start)
                     THEN Append(finalized,
                                 [range |-> format_range(next_start[2], code[2], row),
                                  country |-> next_country])
                     ELSE finalized
         IN  consolidate_row(row, codes_in_row, map, i + 1, next_country, next_start, last)

\* Phase 3, lines 191-240: the rules of every row, rows in the order of
\* VIN_CHARACTERS.  The sort key VIN_CHARACTERS.index raises ValueError for a
\* row letter that is not a VIN character.
consolidate(map) ==
    LET all_rows == {code[1] : code \in DOMAIN map}
        unique_rows == SelectSeq(SCRAPE_VIN_CHARACTERS, LAMBDA c : c \in all_rows)
        codes_in_row(row) ==
            LET columns == SelectSeq(COLUMN_HEADERS, LAMBDA c : <<row, c>> \in DOMAIN map)
            IN  [k \in DOMAIN columns |-> <<row, columns[k]>>]
        per_row == [k \in DOMAIN unique_rows |->
                       consolidate_row(unique_rows[k], codes_in_row(unique_rows[k]), map, 1,
                                       None, None, <<>>)]
    IN  IF \E row \in all_rows : ~Contains(SCRAPE_VIN_CHARACTERS, row)
        THEN [raised |-> TRUE, wmi_map |-> map, wmi_rules |-> <<>>]
        ELSE [raised |-> FALSE, wmi_map |-> map,
              wmi_rules |-> Flatten(per_row, Len(per_row))]

\* parse_wmi_region_table on the rows of the second wikitable of the page
parse_wmi_region_table(rows) ==
    LET filled == fill_rows(rows, 1, <<>>, <<>>)
    IN  IF filled.raised
        THEN [raised |-> TRUE, wmi_map |-> filled.wmi_map, wmi_rules |-> <<>>]
        ELSE consolidate(filled.wmi_map)

\* Tables of a header row and the rows J and K: J has MaxCells cells that are
\* empty or name a country and span one cell, two columns or two rows; K has
\* at most one cell.
SampleTables ==
    LET Cell(text, colspan, rowspan) ==
            [text |-> text, colspan |-> colspan, rowspan |-> rowspan]
        texts == {JAPAN, <<"U", "A", "E">>, <<>>, <<"(", "n", "/", "a", ")">>,
                  JAPAN \o <<" ", "(", "J", "P", ")">>}
        cell_types == {Cell(text, span[1], span[2]) :
                           text \in texts, span \in {<<1, 1>>, <<2, 1>>, <<1, 2>>}}
        header == <<Cell(<<>>, 1, 1), Cell(<<"A">>, 1, 1), Cell(<<"B">>, 1, 1)>>
        row_J == {<<Cell(<<"J">>, 1, 1)>> \o cells : cells \in [1..MaxCells -> cell_types]}
        row_K == {<<Cell(<<"K">>, 1, 1)>>,
                  <<Cell(<<"K">>, 1, 1), Cell(<<"U", "A", "E">>, 2, 1)>>}
    IN  {<<header, j, k>> : j \in row_J, k \in row_K}

InitScrape ==
    /\ countries = {}
    /\ wmi_region_codes = {}
    /\ wmi_regions = {}
    /\ wmi_factories = {}
    /\ factory_logos = {}
    /\ current_year = 2010
    /\ op = "none"
    /\ raw = <<>>
    /\ generated = <<>>
    /\ result = NoResult
    /\ log = <<>>
    /\ calls = NoCalls
    /\ frames = NoFrames
    /\ wmi_map = <<>>
    /\ wmi_rules = <<>>

\* main(), lines 275-305: parse the page and save the rules; nothing is saved
\* if no rule was extracted or the parse raised
ScrapeWmiRegions ==
    /\ log = <<>>
    /\ \E rows \in SampleTables :
        LET parsed == parse_wmi_region_table(rows)
        IN  IF parsed.raised \/ parsed.wmi_rules = <<>>
            THEN /\ log' = <<"scrape_wmi_regions:nothing_saved">>
                 /\ UNCHANGED <<wmi_map, wmi_rules>>
            ELSE /\ log' = <<"scrape_wmi_regions">>
                 /\ wmi_map' = parsed.wmi_map
                 /\ wmi_rules' = parsed.wmi_rules
    /\ UNCHANGED <<tables, current_year, op, raw, generated, result, calls, frames>>

NextScrape == ScrapeWmiRegions

SpecScrape == InitScrape /\ [][NextScrape]_vars


-----------------------------------------------------------------------------
(* Vocabulary of the properties, written from the specification's words    *)
(* and independent of the definitions that model routes.py.                *)

\* The alphabet as section 4.1 describes it: A-Z minus I/O/Q, and 0-9
SpecAlphabet == (Range(ASCII_UPPERCASE) \ {"I", "O", "Q"}) \cup Range(DIGITS)

SpecWhitespace == {" ", "\t", "\n"}

RECURSIVE TrimLeft(_)
TrimLeft(s) ==
    IF s # <<>> /\ Head(s) \in SpecWhitespace THEN TrimLeft(Tail(s)) ELSE s

RECURSIVE TrimRight(_)
TrimRight(s) ==
    IF s # <<>> /\ s[Len(s)] \in SpecWhitespace
    THEN TrimRight(SubSeq(s, 1, Len(s) - 1))
    ELSE s

\* "Normalize to uppercase, trim whitespace"
UpperTrim(s) ==
    TrimRight(TrimLeft([i \in DOMAIN s |->
        IF \E k \in 1..26 : ASCII_LOWERCASE[k] = s[i]
        THEN ASCII_UPPERCASE[CHOOSE k \in 1..26 : ASCII_LOWERCASE[k] = s[i]]
        ELSE s[i]]))

\* a value the validator of section 4.1 lets through
WellFormed(v) == Len(v) = 17 /\ \A i \in 1..17 : v[i] \in SpecAlphabet

IsError(r) == "error" \in DOMAIN r

IsRecord(r) == "vin" \in DOMAIN r

ForbiddenErrors == {ERR_FORBIDDEN("I"), ERR_FORBIDDEN("O"), ERR_FORBIDDEN("Q")}

ValidationErrors == {ERR_LENGTH, ERR_INVALID} \cup ForbiddenErrors

NorthAmericanLeads == {"1", "2", "3", "4", "5"}

\* the validated value of the request being served
RequestVin == UpperTrim(raw)

\* sum of transliterate(vin[i]) * weight[i] with the weights of ISO 3779 written out
SpecWeightedSum(v) ==
    Transliterate(v[1]) * 8 + Transliterate(v[2]) * 7 + Transliterate(v[3]) * 6
    + Transliterate(v[4]) * 5 + Transliterate(v[5]) * 4 + Transliterate(v[6]) * 3
    + Transliterate(v[7]) * 2 + Transliterate(v[8]) * 10 + Transliterate(v[9]) * 0
    + Transliterate(v[10]) * 9 + Transliterate(v[11]) * 8 + Transliterate(v[12]) * 7
    + Transliterate(v[13]) * 6 + Transliterate(v[14]) * 5 + Transliterate(v[15]) * 4
    + Transliterate(v[16]) * 3 + Transliterate(v[17]) * 2

SpecCheckChar(v) ==
    LET r == SpecWeightedSum(v) % 11
    IN  IF r = 10 THEN "X"
        ELSE CASE r = 0 -> "0" [] r = 1 -> "1" [] r = 2 -> "2" [] r = 3 -> "3" [] r = 4 -> "4"
               [] r = 5 -> "5" [] r = 6 -> "6" [] r = 7 -> "7" [] r = 8 -> "8" [] r = 9 -> "9"

\* the continent table of section 4.4
SpecRegion(c) ==
    IF c \in {"1", "2", "3", "4", "5"} THEN NORTH_AMERICA
    ELSE IF c \in {"6", "7"} THEN OCEANIA
    ELSE IF c \in {"8", "9"} THEN SOUTH_AMERICA
    ELSE IF c \in {"J", "K", "L", "M", "N"} THEN ASIA
    ELSE IF c \in {"A", "B"} THEN AFRICA
    ELSE IF c \in {"S", "T", "U", "V", "W", "X", "Y", "Z"} THEN EUROPE
    ELSE UNKNOWN

-----------------------------------------------------------------------------
(* The properties.                                                         *)

\* C1: round trip.  Whatever generate_vin returns, for every clock year and
\* every factory table of 3-character alphabet WMIs (the empty one included),
\* decode_vin accepts it: no error, also with a leading 1-5, and
\* check_digit_valid = true.
C1_RoundTrip ==
    op = "generate" =>
        /\ \A r \in decode_vin(generated, current_year) :
               ~IsError(r) /\ r.check_digit_valid = TRUE
        /\ ~IsError(result)
        /\ result.check_digit_valid = TRUE

C1_Witness ==
    /\ op = "generate"
    /\ generated[1] \in NorthAmericanLeads
    /\ generated[9] # "0"
    /\ IsRecord(result)
    /\ result.check_digit_valid

\* C2: decode_vin fails with the checksum error exactly when the validated
\* VIN starts with 1-5 and its position-8 character differs from the computed
\* check digit; with any other leading character a wrong check character
\* decodes, with check_digit_valid = false.  1HGCM82630A004352 is rejected,
\* JHGCM82630A004352 is decoded.
C2_ChecksumPolicy ==
    /\ op = "decode" =>
        LET v == RequestVin
            wrong == WellFormed(v) /\ v[9] # SpecCheckChar(v)
        IN  /\ (IsError(result) /\ result.error = ERR_CHECK_DIGIT)
                   <=> (wrong /\ v[1] \in NorthAmericanLeads)
            /\ (wrong /\ v[1] \notin NorthAmericanLeads)
                   => (IsRecord(result) /\ result.check_digit_valid = FALSE)
    /\ decode_vin([BaseVin1 EXCEPT ![9] = "0"], current_year) = {[error |-> ERR_CHECK_DIGIT]}
    /\ \A r \in decode_vin([BaseVin1 EXCEPT ![1] = "J", ![9] = "0"], current_year) :
           IsRecord(r) /\ r.check_digit_valid = FALSE

C2_Witness ==
    /\ op = "decode"
    /\ raw = [BaseVin1 EXCEPT ![1] = "J", ![9] = "0"]
    /\ IsRecord(result)
    /\ result.check_digit_valid = FALSE

\* C3: for a 17-character VIN over the alphabet compute_check_digit is the
\* weighted sum of the transliterated characters modulo 11, written X for 10
\* and as the decimal digit otherwise; for 1HGCM82633A004352 it is 3.
C3_CheckDigitValue ==
    /\ op # "none" =>
           LET v == RequestVin
           IN  WellFormed(v) =>
                   /\ compute_check_digit(v) = SpecCheckChar(v)
                   /\ IsRecord(result) =>
                          result.check_digit_valid = (v[9] = SpecCheckChar(v))
    /\ compute_check_digit(BaseVin1) = "3"

C3_Witness ==
    /\ op = "decode"
    /\ WellFormed(raw)
    /\ raw[9] = "X"
    /\ compute_check_digit(raw) = "X"
    /\ IsRecord(result)
    /\ result.check_digit_valid

\* C4: the validation order.  A normalized length other than 17 gives the
\* length error whatever the content; otherwise an I, O or Q gives the
\* forbidden-character error even beside characters outside the alphabet;
\* otherwise a character outside the alphabet gives the invalid-character
\* error; only otherwise does decode reach the checksum and the lookups.
C4_ValidationOrder ==
    /\ op = "decode" =>
        LET v == RequestVin
        IN  IF Len(v) # 17
            THEN result = [error |-> ERR_LENGTH]
            ELSE IF \E i \in 1..17 : v[i] \in {"I", "O", "Q"}
                 THEN IsError(result) /\ result.error \in ForbiddenErrors
                 ELSE IF \E i \in 1..17 : v[i] \notin SpecAlphabet
                      THEN result = [error |-> ERR_INVALID]
                      ELSE IsRecord(result) \/ result = [error |-> ERR_CHECK_DIGIT]
    /\ decode_vin(<<"S", "H", "O", "R", "T">>, current_year) = {[error |-> ERR_LENGTH]}
    /\ decode_vin([BaseVin1 EXCEPT ![10] = "I"], current_year) = {[error |-> ERR_FORBIDDEN("I")]}

C4_Witness ==
    /\ op = "decode"
    /\ Len(raw) = 17
    /\ \E i \in 1..17 : raw[i] \in {"I", "O", "Q"}
    /\ \E i \in 1..17 : raw[i] = "-"
    /\ IsError(result)
    /\ result.error \in ForbiddenErrors

\* C5: decode_vin is case-insensitive and ignores surrounding whitespace:
\* a raw input has the outcome of its upper-cased, trimmed form, and the vin
\* field of a result is that normalized 17-character value.
C5_Normalization ==
    op = "decode" =>
        LET v == RequestVin
        IN  /\ decode_vin(raw, current_year) = decode_vin(v, current_year)
            /\ result \in decode_vin(v, current_year)
            /\ IsRecord(result) => (result.vin = v /\ Len(result.vin) = 17)

C5_Witness ==
    /\ op = "decode"
    /\ Len(raw) > 17
    /\ raw[1] \in SpecWhitespace
    /\ raw[Len(raw)] \in SpecWhitespace
    /\ \E i \in DOMAIN raw : raw[i] \in Range(ASCII_LOWERCASE)
    /\ IsRecord(result)
    /\ result.vin = RequestVin

\* the symbols decode_vin lets through at the plant-code position of a VIN
AcceptedSymbols ==
    {c \in Range(ASCII_UPPERCASE) \cup Range(DIGITS) \cup {"-", "_", " "} :
         \A r \in decode_vin([BaseVin2 EXCEPT ![11] = c], current_year) : IsRecord(r)}

\* the symbols generate_vin can put at the plant-code position
GeneratedSymbols == random_choice(VIN_CHARACTERS)

\* C6 as stated: the alphabet the validator accepts and the generator samples
\* from has exactly 34 symbols, hence 34 x 34 = 1,156 two-character codes.
C6_Original ==
    /\ op = "none" => Cardinality(AcceptedSymbols) = 34
    /\ Cardinality(Range(VIN_CHARACTERS)) = 34
    /\ Cardinality(Range(SEED_VIN_CHARACTERS) \X Range(SEED_VIN_CHARACTERS)) = 1156

\* C6 amended: the alphabet the validator accepts and the generator samples
\* from is the letters A-Z without I, O and Q together with the digits 0-9,
\* which are 33 symbols, so that there are 33 x 33 = 1,089 two-character codes.
C6_Alphabet ==
    /\ op = "none" => (AcceptedSymbols = SpecAlphabet /\ Cardinality(AcceptedSymbols) = 33)
    /\ GeneratedSymbols \subseteq SpecAlphabet
    /\ Range(VIN_CHARACTERS) = SpecAlphabet
    /\ Len(VIN_CHARACTERS) = 33
    /\ Cardinality(Range(VIN_CHARACTERS)) = 33
    /\ Range(SEED_VIN_CHARACTERS) = SpecAlphabet
    /\ Cardinality(Range(SEED_VIN_CHARACTERS) \X Range(SEED_VIN_CHARACTERS)) = 1089
    /\ op = "decode" =>
           LET v == RequestVin
           IN  Len(v) = 17 =>
                   ((IsError(result) /\ result.error \in ValidationErrors)
                        <=> \E i \in 1..17 : v[i] \notin SpecAlphabet)
    /\ op = "generate" => \A i \in DOMAIN generated : generated[i] \in SpecAlphabet

C6_Witness ==
    /\ op = "decode"
    /\ Len(raw) = 17
    /\ raw[11] = "U"
    /\ IsRecord(result)

\* The codes the build is to cover: every pair of symbols of the alphabet
TwoCharCodes == {<<a, b>> : a \in SpecAlphabet, b \in SpecAlphabet}

\* The build sequence of main.py has run on a new database, each script to its end
BuildCompleted ==
    log = <<"seed_countries", "seed_wmi_region_codes", "fill_missing_wmi_ranges">>

\* C7 (as stated): once seed_countries, seed_wmi_region_codes and
\* fill_missing_wmi_ranges have completed in that order, the country lookup that
\* decode_vin performs finds, for every two-character code of the alphabet, a
\* row whose country is a row of the countries table.
C7_Original ==
    BuildCompleted =>
        \A code \in TwoCharCodes :
            \A row \in Scalar(wmi_country_query(code[1])) :
                row # NoRow /\ CountryOf(row) # NoRow

\* What the build does achieve: the table it writes, wmi_region_codes, holds
\* every two-character code, each with a country of the countries table.
C7_BuildFillsRegionCodes ==
    BuildCompleted =>
        \A code \in TwoCharCodes :
            \E r \in wmi_region_codes :
                r.code = code /\ \E c \in countries : c.id = r.country_id

\* C8 as stated: region_country is the country mapped to the VIN's first two
\* characters, whatever Tier 1 found.
C8_Original ==
    (op = "decode" /\ IsRecord(result)) =>
        \A r \in wmi_regions :
            (r.code = SubSeq(result.vin, 1, 2) /\ CountryOf(r) # NoRow)
                => result.region_country = CountryOf(r).common_name

\* C9: the region of every decoded VIN is the continent of its leading
\* character: 1-5 North America, 6-7 Oceania, 8-9 South America, J-N Asia,
\* A-B Africa, S-Z Europe, and Unknown for every other leading character.
C9_RegionTable ==
    (op # "none" /\ IsRecord(result)) => result.region = SpecRegion(result.vin[1])

C9_Witness ==
    /\ op = "decode"
    /\ IsRecord(result)
    /\ raw[1] = "7"
    /\ result.region = OCEANIA

\* C10 as stated: each of the leading characters C, D, E, F, G, H, K, P, R
\* and 0 yields Unknown, in the lookup and in the region of the result.
C10_Original ==
    (op # "none" /\ IsRecord(result)
         /\ result.vin[1] \in {"C", "D", "E", "F", "G", "H", "K", "P", "R", "0"})
        => (map_vin_region_to_name(result.vin[1]) = UNKNOWN /\ result.region = UNKNOWN)

\* C10 amended: each of the leading characters C, D, E, F, G, H, P, R and 0
\* yields Unknown, in the lookup and in the region of the result; K lies in
\* the range J-N and yields Asia.
C10_Gap ==
    /\ \A c \in {"C", "D", "E", "F", "G", "H", "P", "R", "0"} :
           map_vin_region_to_name(c) = UNKNOWN
    /\ map_vin_region_to_name("K") = ASIA
    /\ (op # "none" /\ IsRecord(result)) =>
           /\ result.vin[1] \in {"C", "D", "E", "F", "G", "H", "P", "R", "0"}
                  => (result.region = UNKNOWN /\ result.region_flag = PLACEHOLDER_SVG)
           /\ result.vin[1] = "K" => result.region = ASIA

C10_Witness ==
    /\ op = "decode"
    /\ IsRecord(result)
    /\ raw[1] = "C"
    /\ result.region = UNKNOWN

\* The factory rows Tier 1 can find for a WMI (wmi_factories.wmi is unique)
Tier1Hit(wmi) == {f \in wmi_factories : f.wmi = wmi}

\* C11 (as stated): the country field is the linked country's name when the
\* Tier-1 factory has a linked country; otherwise the factory's free-text
\* region when present; otherwise (a factory with neither, or no factory) the
\* Tier-2 country name, which the result carries as region_country.
C11_Original ==
    (op # "none" /\ IsRecord(result)) =>
        LET hit == Tier1Hit(result.wmi)
            linked == {c \in countries : \E f \in hit : c.id = f.country_id}
        IN  IF linked # {}
            THEN \E c \in linked : result.country = c.common_name
            ELSE IF \E f \in hit : f.region # <<>>
            THEN \E f \in hit : result.country = f.region
            ELSE result.country = result.region_country

\* What the code does in the case C11 gets wrong: a factory with neither a
\* linked country nor a region gives the fixed text 'Unknown Country'; every
\* other case is as C11 says.
C11_AsCoded ==
    (op # "none" /\ IsRecord(result)) =>
        LET hit == Tier1Hit(result.wmi)
            linked == {c \in countries : \E f \in hit : c.id = f.country_id}
        IN  IF linked # {}
            THEN \E c \in linked : result.country = c.common_name
            ELSE IF \E f \in hit : f.region # <<>>
            THEN \E f \in hit : result.country = f.region
            ELSE IF hit # {}
            THEN result.country = UNKNOWN_COUNTRY
            ELSE result.country = result.region_country

NORTH_AMERICA_PNG == <<"n", "o", "r", "t", "h", "_", "a", "m", "e", "r", "i", "c", "a", ".", "p", "n", "g">>

SOUTH_AMERICA_PNG == <<"s", "o", "u", "t", "h", "_", "a", "m", "e", "r", "i", "c", "a", ".", "p", "n", "g">>

OCEANIA_PNG == <<"o", "c", "e", "a", "n", "i", "a", ".", "p", "n", "g">>

ASIA_PNG == <<"a", "s", "i", "a", ".", "p", "n", "g">>

AFRICA_PNG == <<"a", "f", "r", "i", "c", "a", ".", "p", "n", "g">>

EUROPE_PNG == <<"e", "u", "r", "o", "p", "e", ".", "p", "n", "g">>

\* The badge file of a continent, as the specification derives it
SpecBadge(region) ==
    CASE region = NORTH_AMERICA -> NORTH_AMERICA_PNG
      [] region = SOUTH_AMERICA -> SOUTH_AMERICA_PNG
      [] region = OCEANIA -> OCEANIA_PNG
      [] region = ASIA -> ASIA_PNG
      [] region = AFRICA -> AFRICA_PNG
      [] region = EUROPE -> EUROPE_PNG
      [] OTHER -> PLACEHOLDER_SVG

\* C12: region and region_flag of a decode result come from Tier 3 alone: in
\* every reference dataset they are the same function of the VIN's leading
\* character, so two datasets that differ in their factory records and
\* two-character mappings give the same region and region_flag for a VIN.
C12_RegionFromTier3 ==
    (op # "none" /\ IsRecord(result)) =>
        /\ result.region = SpecRegion(result.vin[1])
        /\ result.region_flag = SpecBadge(SpecRegion(result.vin[1]))

C12_Witness ==
    /\ op = "decode"
    /\ IsRecord(result)
    /\ result.manufacturer = HONDA
    /\ result.region_country = UNITED_STATES
    /\ result.region = NORTH_AMERICA
    /\ result.region_flag = NORTH_AMERICA_PNG

\* C13: every VIN that passes the validator and the checksum policy decodes to
\* a record, never an error, whatever the reference dataset holds; a Tier-1
\* miss is reported as the unknown-manufacturer marker with no logos.
C13_BestEffort ==
    op # "none" =>
        LET v == RequestVin
        IN  (WellFormed(v) /\ (v[1] \in NorthAmericanLeads => v[9] = SpecCheckChar(v)))
                => /\ IsRecord(result)
                   /\ Tier1Hit(SubSeq(v, 1, 3)) = {}
                          => /\ result.manufacturer = UNKNOWN_MANUFACTURER
                             /\ result.manufacturer_logos = {}

C13_Witness ==
    /\ op = "decode"
    /\ WellFormed(raw)
    /\ wmi_regions = {}
    /\ wmi_factories # {}
    /\ Tier1Hit(SubSeq(raw, 1, 3)) = {}
    /\ IsRecord(result)
    /\ result.manufacturer = UNKNOWN_MANUFACTURER

\* The fields the specification requires of a decode result
RequiredFields ==
    {"vin", "wmi", "vds", "vis", "check_digit", "check_digit_valid", "model_year_char",
     "plant_code", "serial_number", "manufacturer", "manufacturer_logos", "country",
     "country_flag", "country_region", "factory_country", "factory_flag",
     "factory_region", "region", "region_country", "region_flag", "model_year"}

\* C14: every successful decode result holds all the required fields, on each
\* branch: factory with a linked country, factory without one, no factory.
C14_AllFields ==
    (op # "none" /\ IsRecord(result)) => RequiredFields \subseteq DOMAIN result

C14_Witness ==
    /\ op = "decode"
    /\ IsRecord(result)
    /\ Tier1Hit(result.wmi) = {}
    /\ RequiredFields \subseteq DOMAIN result
    /\ result.factory_flag = WHITE_FLAG_EMOJI

\* The characters of the year table in the order of their base years, 2010 on
YearChars ==
    <<"A", "B", "C", "D", "E", "F", "G", "H", "J", "K", "L", "M", "N", "P", "R",
      "S", "T", "V", "W", "X", "Y", "1", "2", "3", "4", "5", "6", "7", "8", "9">>

\* The year a character resolves to at a reference year; 0 stands for Unknown
SpecYear(c, referenceYear) ==
    IF ~Contains(YearChars, c)
    THEN 0
    ELSE LET base == 2009 + IndexOf(YearChars, c)
             year == IF base < referenceYear - 30 THEN base + 30 ELSE base
         IN  IF year <= referenceYear THEN year ELSE 0

\* Reference years around the table, its rollover and a second cycle
YearProbe == {2009, 2010, 2011, 2025, 2039, 2040, 2041, 2069, 2070, 2071, 2100, 2101}

\* C15: resolve_model_year gives Unknown for a character outside the year
\* table; otherwise the base year, plus 30 exactly once if the base is before
\* referenceYear - 30, and Unknown if that year is after referenceYear.  With
\* referenceYear 2025, L resolves to 2020 and 3 to Unknown.
C15_ModelYear ==
    /\ op = "none" =>
           \A y \in YearProbe \cup {current_year} :
               \A c \in SpecAlphabet \cup {"I", "O", "Q", "a", " "} :
                   resolve_model_year(c, y) = SpecYear(c, y)
    /\ resolve_model_year("L", 2025) = 2020
    /\ resolve_model_year("3", 2025) = 0
    /\ (op # "none" /\ IsRecord(result)) =>
           LET year == SpecYear(result.vin[10], current_year)
           IN  result.model_year = IF year = 0 THEN UNKNOWN ELSE <<year>>

C15_Witness ==
    /\ op = "decode"
    /\ IsRecord(result)
    /\ current_year = 2025
    /\ result.vin[10] = "L"
    /\ result.model_year = <<2020>>

\* C16 (as stated): every value of generate_vin has exactly 17 characters, all
\* of the alphabet, with the WMI of a factory row in positions 0-2 when the
\* factory table is not empty and six decimal digits in positions 11-16.
C16_Original ==
    op = "generate" =>
        /\ Len(generated) = 17
        /\ \A i \in DOMAIN generated : generated[i] \in SpecAlphabet
        /\ wmi_factories # {} => SubSeq(generated, 1, 3) \in {f.wmi : f \in wmi_factories}
        /\ \A i \in 12..17 : i \in DOMAIN generated => generated[i] \in Range(DIGITS)

\* What holds of generate_vin: the same, provided every WMI of the factory
\* table is 3 characters of the alphabet.
C16_WithAlphabetFactories ==
    (op = "generate"
         /\ \A f \in wmi_factories : Len(f.wmi) = 3 /\ Range(f.wmi) \subseteq SpecAlphabet)
        => /\ Len(generated) = 17
           /\ \A i \in DOMAIN generated : generated[i] \in SpecAlphabet
           /\ wmi_factories # {} => SubSeq(generated, 1, 3) \in {f.wmi : f \in wmi_factories}
           /\ \A i \in 12..17 : generated[i] \in Range(DIGITS)

\* C17: position 9 of a generated VIN resolves to a year that is not after the
\* reference year, unless no character of the year table resolves (reference
\* year before 2010), and then it is L; so from 2010 on the decode of a
\* generated VIN reports a model year, never Unknown.
C17_NoFutureYear ==
    /\ op = "none" =>
           \A y \in YearProbe \cup {current_year} :
               /\ (valid_years(y) = {}) <=> (y < 2010)
               /\ \A c \in valid_years(y) : SpecYear(c, y) # 0 /\ SpecYear(c, y) <= y
    /\ op = "generate" =>
           LET year == SpecYear(generated[10], current_year)
           IN  IF current_year >= 2010
               THEN /\ year # 0
                    /\ year <= current_year
                    /\ IsRecord(result) => result.model_year = <<year>>
               ELSE generated[10] = "L"

C17_Witness ==
    /\ op = "generate"
    /\ current_year = 2041
    /\ generated[10] = "A"
    /\ IsRecord(result)
    /\ result.model_year = <<2040>>

\* C18: decode_vin and generate_vin only read the reference dataset: no step
\* of the engine, a request ending in a validation error included, changes
\* the country, factory, two-character mapping or logo tables.
C18_ReadOnly == [][tables' = tables]_vars

C18_Witness ==
    /\ op = "decode"
    /\ IsError(result)
    /\ result.error = ERR_CHECK_DIGIT
    /\ wmi_factories # {}
    /\ wmi_regions # {}

\* C20: position 8 does not contribute to its own checksum: compute_check_digit
\* is the same for VINs that differ only there, so exactly one character of the
\* alphabet at position 8 makes validate_check_digit true, and it is a decimal
\* digit or X.  The checksum reads no table and no clock, so each request VIN
\* is examined under one dataset.
C20_OwnPositionFree ==
    (op = "decode" /\ wmi_factories = {} /\ wmi_regions = {} /\ current_year = 2025) =>
        LET v == RequestVin
        IN  WellFormed(v) =>
                LET accepted == {k \in SpecAlphabet :
                                    validate_check_digit([v EXCEPT ![9] = k])}
                IN  /\ \A k \in SpecAlphabet :
                           compute_check_digit([v EXCEPT ![9] = k]) = compute_check_digit(v)
                    /\ Cardinality(accepted) = 1
                    /\ accepted \subseteq Range(DIGITS) \cup {"X"}
                    /\ accepted = {SpecCheckChar(v)}

C20_Witness ==
    /\ op = "decode"
    /\ wmi_factories = {}
    /\ wmi_regions = {}
    /\ current_year = 2025
    /\ WellFormed(raw)
    /\ raw[9] = "X"
    /\ IsRecord(result)
    /\ result.check_digit_valid

\* C19: concurrent calls share no mutable state: under every interleaving of
\* the calls in flight against the same read-only tables, a decode call that
\* has finished holds a value decode_vin gives for its argument when it runs
\* alone, and a generate call that has finished holds a valid VIN: 17
\* characters of the alphabet, the WMI of a factory and the right check digit.
C19_Isolation ==
    \A w \in Workers :
        calls[w].pc = "done" =>
            IF calls[w].kind = "decode"
            THEN calls[w].result \in decode_vin(calls[w].raw, current_year)
            ELSE LET v == calls[w].result
                 IN  /\ WellFormed(v)
                     /\ v[9] = SpecCheckChar(v)
                     /\ SubSeq(v, 1, 3) \in {f.wmi : f \in wmi_factories}

C19_Witness ==
    /\ calls[1].pc = "done"
    /\ calls[1].kind = "decode"
    /\ IsRecord(calls[1].result)
    /\ calls[1].result.manufacturer = HONDA
    /\ calls[2].pc = "assemble"
    /\ calls[2].raw = Lower(BaseVin2)

\* The countries that the rows of wmi_region_codes give a two-character code
MappingsOf(code) == {r.country_id : r \in {x \in wmi_region_codes : x.code = code}}

\* C21 (as stated): after seed_wmi_region_codes followed by
\* fill_missing_wmi_ranges, every two-character code of the alphabet has exactly
\* one mapping: no code is mapped to two different countries.
C21_Original ==
    BuildCompleted => \A code \in TwoCharCodes : Cardinality(MappingsOf(code)) = 1

\* What the two scripts do achieve: every code has at least one mapping, and
\* no (code, country) pair is stored twice.
C21_AtLeastOne ==
    BuildCompleted => \A code \in TwoCharCodes : MappingsOf(code) # {}

SENTINEL_CODE == <<"X", "X">>

Sentinels == {c \in countries : c.iso_alpha2 = SENTINEL_CODE}

FillRan ==
    /\ Len(log') = Len(log) + 1
    /\ log'[Len(log')] \in {"fill_missing_wmi_ranges", "fill_missing_wmi_ranges:no_unknown"}

\* C22: a run of fill_missing_wmi_ranges only back-fills: it leaves the
\* countries and every existing mapping as they were, adds a mapping to the
\* Unknown country (code XX) for exactly the two-character codes that had no
\* mapping, adds nothing when there is no such country, and a second run
\* right after it inserts nothing.
C22_BackFillOnly ==
    [][FillRan =>
          LET added == wmi_region_codes' \ wmi_region_codes
              unmapped == {code \in TwoCharCodes : MappingsOf(code) = {}}
          IN  /\ countries' = countries
              /\ wmi_region_codes \subseteq wmi_region_codes'
              /\ Sentinels = {} => added = {}
              /\ Sentinels # {} =>
                     /\ {r.code : r \in added} = unmapped
                     /\ \A r \in added : \E c \in Sentinels : r.country_id = c.id
                     /\ Cardinality(added) = Cardinality(unmapped)
              /\ fill_missing_wmi_ranges(countries', wmi_region_codes').wmi_region_codes
                     = wmi_region_codes']_vars

C22_Witness ==
    /\ Len(log) = 3
    /\ log[2] = "seed_wmi_region_codes"
    /\ log[3] = "fill_missing_wmi_ranges"
    /\ Sentinels # {}
    /\ \E r \in wmi_region_codes : \E c \in Sentinels : r.country_id = c.id
    /\ \E r \in wmi_region_codes : \A c \in Sentinels : r.country_id # c.id

\* C23: once a run of seed_countries has completed, on country data without
\* the code XX, the countries table holds exactly one Unknown record with code
\* XX, however many runs follow; no run adds a second one, and no two rows
\* ever share a country code.
C23_OneSentinel ==
    /\ Cardinality(Sentinels) <= 1
    /\ \A c \in countries, d \in countries : c.iso_alpha2 = d.iso_alpha2 => c = d
    /\ (\E i \in DOMAIN log : log[i] = "seed_countries") =>
           /\ Cardinality(Sentinels) = 1
           /\ \A c \in Sentinels : c.common_name = UNKNOWN

C23_Witness ==
    /\ log = <<"seed_countries", "seed_countries", "seed_countries">>
    /\ Cardinality(Sentinels) = 1
    /\ Cardinality(countries) > 4

\* A run of seed_wmi_factory_codes has completed
FactoriesSeeded == \E i \in DOMAIN log : log[i] = "seed_wmi_factory_codes"

\* C24 (as stated): every factory record that seed_wmi_factory_codes creates
\* without a linked country carries a non-empty free-text region, also when
\* the two-character table has no entry for the factory's first two characters.
C24_Original ==
    FactoriesSeeded =>
        \A f \in wmi_factories : f.country_id = NoId => f.region # None

\* What the seeder does: a factory has a region exactly when the two-character
\* table maps its first two characters to a row of countries that names a
\* known region, and a country exactly when it maps them to any other row.
C24_AsCoded ==
    FactoriesSeeded =>
        \A f \in wmi_factories :
            LET mapped == {CountryOf(r) : r \in {x \in wmi_regions : x.code = SubSeq(f.wmi, 1, 2)}}
            IN  /\ f.region # None <=>
                       \E c \in mapped : c # NoRow /\ Contains(KNOWN_REGIONS, c.common_name)
                /\ f.country_id # NoId <=>
                       \E c \in mapped : c # NoRow /\ ~Contains(KNOWN_REGIONS, c.common_name)

\* C29 (as stated): every WMI code that seed_wmi_factory_codes stores is exactly
\* 3 characters of the VIN alphabet, so a VIN generated from a stored factory
\* passes the validator.
C29_Original ==
    /\ FactoriesSeeded =>
           \A f \in wmi_factories : Len(f.wmi) = 3 /\ Range(f.wmi) \subseteq SpecAlphabet
    /\ (op = "generate" /\ wmi_factories # {}) => IsRecord(result)

\* What holds of the stored codes: each is exactly 3 characters long.
C29_ThreeCharacters ==
    \A f \in wmi_factories : Len(f.wmi) = 3


\* The characters that survive "non-alphanumeric characters stripped"
SpecAlphanumeric == Range(ASCII_LOWERCASE) \cup Range(ASCII_UPPERCASE) \cup Range(DIGITS)

SpecLower(s) ==
    [i \in DOMAIN s |->
        IF \E k \in 1..26 : ASCII_UPPERCASE[k] = s[i]
        THEN ASCII_LOWERCASE[CHOOSE k \in 1..26 : ASCII_UPPERCASE[k] = s[i]]
        ELSE s[i]]

\* every run of whitespace inside a name becomes one underscore
RECURSIVE SpecCollapse(_)
SpecCollapse(s) ==
    IF s = <<>> THEN <<>>
    ELSE IF Head(s) \in SpecWhitespace THEN <<"_">> \o SpecCollapse(TrimLeft(s))
    ELSE <<Head(s)>> \o SpecCollapse(Tail(s))

\* The badge filename of section 4.4: lower case, internal whitespace to one
\* underscore, non-alphanumeric characters stripped, '.png' appended
SpecFilename(name) ==
    IF name = UNKNOWN THEN PLACEHOLDER_SVG
    ELSE LET kept == SelectSeq(TrimRight(TrimLeft(name)),
                               LAMBDA c : c \in SpecAlphanumeric \cup SpecWhitespace)
         IN  SpecCollapse(SpecLower(kept)) \o PNG_SUFFIX

BadgeFilenames ==
    {NORTH_AMERICA_PNG, OCEANIA_PNG, SOUTH_AMERICA_PNG, ASIA_PNG, AFRICA_PNG, EUROPE_PNG,
     PLACEHOLDER_SVG}

\* C25: region_flag is the Tier-3 region name in lower case, with internal
\* whitespace collapsed to one underscore, non-alphanumeric characters
\* stripped and '.png' appended; it is the placeholder filename if and only if
\* the region is 'Unknown'; over all leading characters it takes only the
\* values north_america.png, oceania.png, south_america.png, asia.png,
\* africa.png, europe.png and the placeholder.
C25_BadgeFilename ==
    /\ op = "none" =>
           \A c \in Range(VIN_CHARACTERS) \cup {"I", "O", "Q", "a", "j", "s", " ", "-"} :
               LET name == map_vin_region_to_name(c)
                   file == get_region_image_filename(name)
               IN  /\ file = SpecFilename(name)
                   /\ file \in BadgeFilenames
                   /\ (file = PLACEHOLDER_SVG) <=> (name = UNKNOWN)
    /\ (op # "none" /\ IsRecord(result)) =>
           /\ result.region_flag = SpecFilename(result.region)
           /\ result.region_flag \in BadgeFilenames
           /\ (result.region_flag = PLACEHOLDER_SVG) <=> (result.region = UNKNOWN)

C25_Witness ==
    /\ op = "decode"
    /\ IsRecord(result)
    /\ result.region = SOUTH_AMERICA
    /\ result.region_flag = SOUTH_AMERICA_PNG
    /\ result.region_flag = SpecFilename(result.region)

\* Reference years from before the table to after its second cycle
ReferenceYears == 1990..2110

\* The alphabet symbols that the year table does not map
UnmappedYearChars == Range(VIN_CHARACTERS) \ DOMAIN MODEL_YEARS

\* The part of C26 that does not count the unmapped symbols
YearTableOneToOne ==
    /\ Cardinality(DOMAIN MODEL_YEARS) = 30
    /\ DOMAIN MODEL_YEARS \subseteq SpecAlphabet
    /\ {MODEL_YEARS[c] : c \in DOMAIN MODEL_YEARS} = 2010..2039
    /\ \A c, d \in DOMAIN MODEL_YEARS : MODEL_YEARS[c] = MODEL_YEARS[d] => c = d

\* C26 (as stated): the year table maps exactly 30 alphabet symbols one-to-one
\* onto 2010..2039, and the alphabet symbols not in the table, of which there
\* are 34 - 30 = 4, resolve to Unknown for every reference year.
C26_Original ==
    op = "none" =>
        /\ YearTableOneToOne
        /\ Cardinality(Range(VIN_CHARACTERS)) = 34
        /\ Cardinality(UnmappedYearChars) = 4
        /\ \A c \in UnmappedYearChars : \A y \in ReferenceYears : resolve_model_year(c, y) = 0

\* C26 amended: the year table maps exactly 30 alphabet symbols one-to-one
\* onto 2010..2039, and the alphabet symbols not in the table, which are the
\* 33 - 30 = 3 symbols U, Z and 0, resolve to Unknown for every reference
\* year, so that a decoded VIN with one of them at position 9 reports the
\* model year Unknown.
C26_YearTable ==
    /\ op = "none" =>
           /\ YearTableOneToOne
           /\ Cardinality(Range(VIN_CHARACTERS)) = 33
           /\ UnmappedYearChars = {"U", "Z", "0"}
           /\ \A c \in UnmappedYearChars :
                  \A y \in ReferenceYears \cup {current_year} : resolve_model_year(c, y) = 0
    /\ (op # "none" /\ IsRecord(result) /\ result.vin[10] \in {"U", "Z", "0"}) =>
           result.model_year = UNKNOWN

C26_Witness ==
    /\ op = "decode"
    /\ IsRecord(result)
    /\ result.vin[10] = "U"
    /\ result.vin[10] \in UnmappedYearChars
    /\ result.model_year = UNKNOWN

\* C27: when the factory table is not empty and its WMI codes are 3 alphabet
\* characters, the decode of a generated VIN hits Tier 1: it is a record whose
\* wmi is the WMI of a factory row and whose manufacturer is that row's name,
\* never the unknown-manufacturer marker.
C27_GeneratedHitsTier1 ==
    (/\ op = "generate"
     /\ wmi_factories # {}
     /\ \A f \in wmi_factories : Len(f.wmi) = 3 /\ Range(f.wmi) \subseteq SpecAlphabet)
        => /\ IsRecord(result)
           /\ result.vin = generated
           /\ \E f \in wmi_factories :
                  /\ f.wmi = result.wmi
                  /\ f.wmi = SubSeq(generated, 1, 3)
                  /\ result.manufacturer = f.name
           /\ result.manufacturer # UNKNOWN_MANUFACTURER

C27_Witness ==
    /\ op = "generate"
    /\ wmi_factories # {}
    /\ IsRecord(result)
    /\ result.wmi = <<"J", "A", "C">>
    /\ result.manufacturer = ISUZU
    /\ \E f \in wmi_factories : f.wmi = result.wmi /\ f.name = ISUZU

\* The reference years of C28
RolloverYears == 2010..2070

\* C28: for every reference year from 2010 to 2070, two different year
\* characters never resolve to the same year, and every resolved year lies in
\* the window from referenceYear - 30 to referenceYear; so does the model year
\* of every decoded record at such a clock reading.
C28_InjectiveInWindow ==
    /\ op = "none" =>
           \A y \in RolloverYears :
               LET resolved == {c \in SpecAlphabet : resolve_model_year(c, y) # 0}
               IN  /\ \A c, d \in resolved :
                          resolve_model_year(c, y) = resolve_model_year(d, y) => c = d
                   /\ \A c \in resolved :
                          /\ y - 30 <= resolve_model_year(c, y)
                          /\ resolve_model_year(c, y) <= y
    /\ (op # "none" /\ IsRecord(result) /\ current_year \in RolloverYears
            /\ result.model_year # UNKNOWN) =>
           /\ current_year - 30 <= result.model_year[1]
           /\ result.model_year[1] <= current_year

C28_Witness ==
    /\ op = "decode"
    /\ IsRecord(result)
    /\ current_year = 2041
    /\ result.vin[10] = "A"
    /\ result.model_year = <<2040>>

\* The (code, country) pairs the seeder reads out of the saved rules
ExpandedRules ==
    UNION {{<<code, wmi_rules[k].country>> :
                code \in Range(expand_range(wmi_rules[k].range).codes)} :
               k \in DOMAIN wmi_rules}

\* The (code, country) pairs of the map the rules were made from
MappedCodes == {<<code, wmi_map[code]>> : code \in DOMAIN wmi_map}

\* a code that the map leaves out although a later code of its row is mapped
\* and an earlier one is too
GapCodes ==
    {<<row, COLUMN_HEADERS[j]>> : row \in {code[1] : code \in DOMAIN wmi_map},
                                  j \in DOMAIN COLUMN_HEADERS} \cap
    {code \in Range(SCRAPE_VIN_CHARACTERS) \X Range(COLUMN_HEADERS) :
         /\ code \notin DOMAIN wmi_map
         /\ \E lo, hi \in DOMAIN wmi_map :
                /\ lo[1] = code[1]
                /\ hi[1] = code[1]
                /\ IndexOf(COLUMN_HEADERS, lo[2]) < IndexOf(COLUMN_HEADERS, code[2])
                /\ IndexOf(COLUMN_HEADERS, code[2]) < IndexOf(COLUMN_HEADERS, hi[2])}

\* C30 (as stated): for every code-to-country map the scraper builds, rows
\* with unassigned gaps between assigned codes included, expanding the saved
\* rules with expand_range yields exactly the codes of the map, each with the
\* same country: no code added and none lost.
C30_Original ==
    wmi_rules # <<>> =>
        /\ \A k \in DOMAIN wmi_rules : ~expand_range(wmi_rules[k].range).raised
        /\ ExpandedRules = MappedCodes

\* What holds of the round trip: it is exact for a map without a gap between
\* two mapped codes of a row and without an empty country name; in every case
\* the expansion holds each mapped code that has a name with that name, and
\* the only codes added are gap codes.
C30_WithoutGaps ==
    wmi_rules # <<>> =>
        /\ \A k \in DOMAIN wmi_rules : ~expand_range(wmi_rules[k].range).raised
        /\ {p \in MappedCodes : p[2] # <<>>} \subseteq ExpandedRules
        /\ {p[1] : p \in ExpandedRules} \ DOMAIN wmi_map \subseteq GapCodes
        /\ (GapCodes = {} /\ \A code \in DOMAIN wmi_map : wmi_map[code] # <<>>)
               => ExpandedRules = MappedCodes

\* a saved run whose map has a gap that the rules fill
C30_GapFilled ==
    /\ wmi_rules # <<>>
    /\ GapCodes # {}
    /\ \E p \in ExpandedRules : p[1] \in GapCodes

=============================================================================
